---------------------------- MODULE Spec2Model ----------------------------
(***************************************************************************)
(* A model of apple-opensource-downloader's archive-to-repository engine:  *)
(*   - tar_data_to_tree (src/src/git.rs), the conversion of the entries of *)
(*     a tar archive into one content-addressed Git tree;                  *)
(*   - create_component_repository, the history builder of one component;  *)
(*   - create_release_repository with import_release_component and the     *)
(*     seen_trees cache, the history builder of a composite release.       *)
(*                                                                         *)
(* Byte strings (paths, file data, link names) are sequences of one-letter *)
(* strings.  A Git object identifier is modelled by the object's content:  *)
(* equal content gives the same identifier and different content a         *)
(* different one, which is what a collision-free hash provides.            *)
(***************************************************************************)
EXTENDS Integers, Sequences, FiniteSets, TLC

VARIABLES
    \* ---- the repository (git2::Repository) ----
    odb,            \* objects written to the object store (blobs and trees)
    commits,        \* commit objects written
    tags,           \* tag name -> commit
    branches,       \* local branch name -> commit
    head,           \* HEAD: attached to a branch or detached at a commit
    workdir,        \* commit the working files were last reset to (<<>>: none)
    bare,           \* the `bare` argument
    \* ---- one tar_data_to_tree call ----
    tar_data,       \* the archive being converted: a sequence of entries
    pos,            \* index of the next entry the loop of line 31 reads
    dirs,           \* HashMap<Vec<u8>, TreeBuilder> of line 26
    keys,           \* the part of the sorted `keys` (line 118) not yet visited
    finalized,      \* keys whose tree has been written (line 123), in order
    result,         \* what the call returned (<<>> while it is running)
    tpc,            \* position in tar_data_to_tree
    conv,           \* number of the conversion running (1 or 2)
    first_data,     \* the archive of the first conversion
    first_result,   \* what the first conversion returned
    \* ---- one create_*_repository run ----
    job,            \* which function runs: "component" or "release"
    inited,         \* Repository::init_opts has created the repository
    pc,             \* position in the run
    error,          \* the context of the error the run returned ("": none)
    records,        \* the version records the loop has not taken yet
    parent_commit,  \* Option<Commit>: <<>> or <<commit>>
    seen_trees,     \* the dedup cache: url -> tree identifier
    record,         \* the record of the version being processed (<<>>: none)
    components,     \* release run: the component urls of the current version
    prev_components,\* release run: the component urls of the version before
    root_builder,   \* release run: the TreeBuilder of the version's root tree
    imports,        \* release run: the futures handed to join_all, in order
    log,            \* history: one entry per version taken from the iterator
    fetches,        \* history: url -> number of archive requests sent
    \* ---- one join_all over the imports of a release version ----
    futs,           \* the import_release_component futures, in order
    polled,         \* index of the future join_all is polling (0: none)
    writes,         \* history: the object writes, each with its future
    \* ---- one pair of calls of compare_version_string ----
    ver_a,          \* the version string a
    ver_b,          \* the version string b
    ord_ab,         \* what compare_version_string(a, b) returned (<<>>: not called)
    ord_ba,         \* what compare_version_string(b, a) returned (<<>>: not called)
    \* ---- one call of create_components_repositories ----
    batch_pc,       \* position in create_components_repositories
    batch_result,   \* what the call returned (<<>> while it is running)
    comp_runs,      \* component -> its create_component_repository future
    repos,          \* repository path -> what the repository holds
    errors          \* the `errors` vector of line 265: components whose run failed

repoVars == <<odb, commits, tags, branches, head, workdir, bare>>
treeVars == <<tar_data, pos, dirs, keys, finalized, result, tpc, conv,
              first_data, first_result>>
runVars  == <<job, inited, pc, error, records, parent_commit, seen_trees, record,
              components, prev_components, root_builder, imports, log, fetches>>
joinVars == <<futs, polled, writes>>
cmpVars  == <<ver_a, ver_b, ord_ab, ord_ba>>
batchVars == <<batch_pc, batch_result, comp_runs, repos, errors>>
vars     == <<repoVars, treeVars, runVars, joinVars, cmpVars, batchVars>>

---------------------------------------------------------------------------
(* Bounds of the model *)

\* Most versions a component of a batch has.
MaxBatchVersions == 2

\* Longest archive the tree-builder specification converts.
MaxEntries == 2
\* Most versions one run takes from its record iterator.
MaxVersions == 3
\* Most imports the join_all specification launches for one version.
MaxImports == 2

---------------------------------------------------------------------------
(* Program constants *)

GIT_TREE_MODE == 16384          \* 0o40000
MODE_LINK == 40960              \* 0o120000
MODE_EXEC == 33261              \* 0o100755
MODE_FILE == 33188              \* 0o100644
EXEC_BITS == 73                 \* 0o111
READ_BITS == 292                \* 0o444

branch_name == "main"

---------------------------------------------------------------------------
(* Values *)

\* Option<T>: <<>> is None, <<x>> is Some(x).
None == <<>>
Some(x) == <<x>>

\* Result<Oid>: Ok(oid) or Err(kind).
Ok(oid) == [ok |-> TRUE, oid |-> <<oid>>, err |-> ""]
Err(kind) == [ok |-> FALSE, oid |-> <<>>, err |-> kind]

\* A new TreeBuilder (repo.treebuilder(None)): no entries.
EmptyBuilder == <<>>

\* repo.blob(buf): the blob object, named by its content.
Blob(buf) == [type |-> "blob", data |-> buf, entries |-> <<>>]

\* TreeBuilder::write: the tree object, named by its entries.  The entries
\* are kept by name, so the order of insertion is not part of the name.
TreeWrite(builder) == [type |-> "tree", data |-> <<>>, entries |-> builder]

\* libgit2 refuses an entry whose name is empty (the model's byte alphabet
\* has no '.' so "." ".." and ".git" cannot be formed).
ValidEntryName(filename) == filename # <<>>

\* TreeBuilder::insert of a valid name: adds the entry or replaces the one
\* of the same name.
TreeBuilderInsert(builder, filename, oid, mode) ==
    [n \in (DOMAIN builder) \cup {filename} |->
        IF n = filename THEN [oid |-> oid, mode |-> mode] ELSE builder[n]]

RECURSIVE BitAnd(_, _)
BitAnd(a, b) ==
    IF a = 0 \/ b = 0 THEN 0
    ELSE (a % 2) * (b % 2) + 2 * BitAnd(a \div 2, b \div 2)

\* Index of the first '/' of a byte string, 0 when there is none.
FindSlash(path) ==
    IF \E i \in 1..Len(path) : path[i] = "/"
    THEN CHOOSE i \in 1..Len(path) :
            path[i] = "/" /\ \A j \in 1..(i - 1) : path[j] # "/"
    ELSE 0

\* Index of the last '/' of a byte string, 0 when there is none.
RFindSlash(path) ==
    IF \E i \in 1..Len(path) : path[i] = "/"
    THEN CHOOSE i \in 1..Len(path) :
            path[i] = "/" /\ \A j \in (i + 1)..Len(path) : path[j] # "/"
    ELSE 0

---------------------------------------------------------------------------
(* tar_data_to_tree: one entry of the archive (git.rs lines 31-108) *)

\* The read bits are tested before the execute bits.
EntryModeReadFirst(entry) ==
    IF entry.link_name # <<>>
    THEN [err |-> "", mode |-> MODE_LINK, buf |-> entry.link_name]
    ELSE IF BitAnd(entry.mode, READ_BITS) # 0 \/ entry.mode = 0
    THEN [err |-> "", mode |-> MODE_FILE, buf |-> entry.data]
    ELSE IF BitAnd(entry.mode, EXEC_BITS) # 0
    THEN [err |-> "", mode |-> MODE_EXEC, buf |-> entry.data]
    ELSE [err |-> "InvalidArchiveMode", mode |-> 0, buf |-> <<>>]

\* The permission bits are mapped before the link name is looked at.
EntryModeBitsFirst(entry) ==
    IF BitAnd(entry.mode, EXEC_BITS) = 0 /\ BitAnd(entry.mode, READ_BITS) = 0
       /\ entry.mode # 0
    THEN [err |-> "InvalidArchiveMode", mode |-> 0, buf |-> <<>>]
    ELSE IF entry.link_name # <<>>
    THEN [err |-> "", mode |-> MODE_LINK, buf |-> entry.link_name]
    ELSE IF BitAnd(entry.mode, EXEC_BITS) # 0
    THEN [err |-> "", mode |-> MODE_EXEC, buf |-> entry.data]
    ELSE [err |-> "", mode |-> MODE_FILE, buf |-> entry.data]

\* The mode and bytes stored for a non-directory entry, or the error.
EntryModeAndBuf(entry) ==
    IF entry.link_name # <<>>
    THEN [err |-> "", mode |-> MODE_LINK, buf |-> entry.link_name]
    ELSE IF BitAnd(entry.mode, EXEC_BITS) # 0
    THEN [err |-> "", mode |-> MODE_EXEC, buf |-> entry.data]
    ELSE IF BitAnd(entry.mode, READ_BITS) # 0
    THEN [err |-> "", mode |-> MODE_FILE, buf |-> entry.data]
    ELSE IF entry.mode = 0
    THEN [err |-> "", mode |-> MODE_FILE, buf |-> entry.data]
    ELSE [err |-> "InvalidArchiveMode", mode |-> 0, buf |-> <<>>]

\* The path is kept whole.
StripNothing(path) == path

\* The path with its first directory removed (line 79); only used when the
\* path holds a '/'.
StripFirst(path) == SubSeq(path, FindSlash(path) + 1, Len(path))

\* (dir, filename) of a stripped path (lines 81-93).
SplitDir(path) ==
    LET i == RFindSlash(path) IN
    IF i # 0
    THEN [dir |-> SubSeq(path, 1, i - 1), filename |-> SubSeq(path, i + 1, Len(path))]
    ELSE [dir |-> <<>>, filename |-> path]

\* dirs.insert(k, new builder) for every k of ks: an accumulator that exists
\* is replaced by an empty one.
ReplaceBuilders(d, ks) ==
    [k \in (DOMAIN d) \cup ks |-> IF k \in ks THEN EmptyBuilder ELSE d[k]]

\* dirs.entry(k).or_insert_with(new builder) for every k of ks.
EnsureBuilders(d, ks) ==
    [k \in (DOMAIN d) \cup ks |-> IF k \in DOMAIN d THEN d[k] ELSE EmptyBuilder]

\* The prefixes of dir that end right before a '/' (lines 96-103).
ParentDirs(dir) ==
    {SubSeq(dir, 1, i - 1) : i \in {j \in 1..Len(dir) : dir[j] = "/"}}

\* One iteration of the loop of line 31 on `entry`, from the accumulators d
\* and the object store o: the new accumulators and store, and the error
\* that ends the call ("" when the loop goes on).
ProcessEntry(d, o, entry) ==
    IF entry.is_dir THEN [dirs |-> d, odb |-> o, err |-> ""]
    ELSE
    LET mb == EntryModeAndBuf(entry) IN
    IF mb.err # "" THEN [dirs |-> d, odb |-> o, err |-> mb.err]
    ELSE
    LET blob_oid == Blob(mb.buf)
        o2 == o \cup {blob_oid}
    IN
    IF FindSlash(entry.path) = 0
    THEN [dirs |-> d, odb |-> o2, err |-> ""]
    ELSE
    LET sp == SplitDir(StripFirst(entry.path))
        d2 == EnsureBuilders(d, ParentDirs(sp.dir) \cup {sp.dir})
    IN
    IF ~ValidEntryName(sp.filename)
    THEN [dirs |-> d2, odb |-> o2, err |-> "TreeInsert"]
    ELSE [dirs |-> [d2 EXCEPT ![sp.dir] =
                        TreeBuilderInsert(d2[sp.dir], sp.filename, blob_oid, mb.mode)],
          odb |-> o2, err |-> ""]

---------------------------------------------------------------------------
(* tar_data_to_tree: finalization (git.rs lines 110-147) *)

\* Sequences that list every element of the set S once.
Orders(S) ==
    {s \in [1..Cardinality(S) -> S] : \A i, j \in 1..Cardinality(S) : i # j => s[i] # s[j]}

\* Any order of the keys, as a HashMap hands them out with no sort.
UnsortedKeys(d) == Orders(DOMAIN d)

\* The keys sorted by length, shortest first.
ShortestFirstKeys(d) ==
    {s \in Orders(DOMAIN d) : \A i, j \in 1..Len(s) : i < j => Len(s[i]) <= Len(s[j])}

\* keys.sort_by(|a, b| b.len().cmp(&a.len())) of the keys of a HashMap: the
\* sort is stable and the map's iteration order is arbitrary, so keys of
\* one length come in any order.
SortedKeys(d) ==
    {s \in Orders(DOMAIN d) : \A i, j \in 1..Len(s) : i < j => Len(s[i]) >= Len(s[j])}

\* One iteration of the loop of line 120 on `key`: the tree is written; it
\* is recorded in the parent accumulator, or returned when key is the root.
\* A missing parent is the panic of the expect() calls.
FinalizeKey(d, o, key) ==
    LET oid == TreeWrite(d[key])
        o2 == o \cup {oid}
        end_index == RFindSlash(key)
        parent_path == IF end_index # 0 THEN SubSeq(key, 1, end_index - 1) ELSE <<>>
        tree_path == IF end_index # 0 THEN SubSeq(key, end_index + 1, Len(key)) ELSE key
    IN
    IF key = <<>>
    THEN [dirs |-> d, odb |-> o2, done |-> TRUE, result |-> Ok(oid)]
    ELSE IF parent_path \notin DOMAIN d
    THEN [dirs |-> d, odb |-> o2, done |-> TRUE, result |-> Err("panic")]
    ELSE IF ~ValidEntryName(tree_path)
    THEN [dirs |-> d, odb |-> o2, done |-> TRUE, result |-> Err("TreeInsert")]
    ELSE [dirs |-> [d EXCEPT ![parent_path] =
                        TreeBuilderInsert(d[parent_path], tree_path, oid, GIT_TREE_MODE)],
          odb |-> o2, done |-> FALSE, result |-> Err("")]


---------------------------------------------------------------------------
(* The archives the tree-builder specification converts *)

File(path, mode, data) ==
    [path |-> path, is_dir |-> FALSE, mode |-> mode, link_name |-> <<>>, data |-> data]
Link(path, mode, target) ==
    [path |-> path, is_dir |-> FALSE, mode |-> mode, link_name |-> target, data |-> <<>>]
Dir(path, mode) ==
    [path |-> path, is_dir |-> TRUE, mode |-> mode, link_name |-> <<>>, data |-> <<>>]

\* Entries a tar archive can hold.  Modes: 420 = 0o644, 493 = 0o755,
\* 256 = 0o400, 128 = 0o200 (no read and no execute bit), 511 = 0o777,
\* 1 = 0o001 (an execute bit and no read bit).
TarEntries ==
    { Dir(<<"t", "/">>, 493),
      File(<<"t", "/", "a">>, 420, <<"x">>),
      File(<<"t", "/", "a">>, 493, <<"y">>),
      File(<<"t", "/", "b">>, 420, <<"x">>),
      File(<<"t", "/", "b">>, 128, <<"x">>),
      Link(<<"t", "/", "b">>, 511, <<"a">>),
      Link(<<"t", "/", "c">>, 128, <<"a">>),
      File(<<"t", "/", "a", "/", "b">>, 256, <<"x">>),
      File(<<"t", "/", "a", "/", "c">>, 493, <<"y">>),
      File(<<"t", "/", "b", "/", "a">>, 0, <<"y">>),
      File(<<"t", "/", "a", "/", "b", "/", "c">>, 420, <<"y">>),
      File(<<"t", "/", "/", "a">>, 420, <<"y">>),
      File(<<"t", "/", "a", "/">>, 420, <<"x">>),
      File(<<"t", "/", "a", "/", "/", "b">>, 420, <<"x">>),
      File(<<"t", "/", "/", "a", "/", "b">>, 420, <<"x">>),
      File(<<"t", "/", "c">>, 1, <<"y">>),
      File(<<"u", "/", "a">>, 420, <<"y">>),
      File(<<"a">>, 420, <<"x">>),
      File(<<"a">>, 128, <<"x">>) }

SeqsUpTo(S, n) == UNION {[1..k -> S] : k \in 0..n}

Archives == SeqsUpTo(TarEntries, MaxEntries)

\* The archives that hold the entries of `a` in another (or the same) order.
Reorderings(a) ==
    {[i \in 1..Len(a) |-> a[p[i]]] : p \in Orders(1..Len(a))}

---------------------------------------------------------------------------
(* tar_data_to_tree, step by step, twice in one repository: the second     *)
(* conversion reads the same entries, in the same or in another order, and *)
(* finds the objects of the first in the object store.                     *)

FreshRepo ==
    /\ odb = {}
    /\ commits = {}
    /\ tags = <<>>
    /\ branches = <<>>
    /\ head = [symbolic |-> TRUE, branch |-> branch_name, commit |-> None]
    /\ workdir = None

IdleRun ==
    /\ job = "none"
    /\ inited = TRUE
    /\ pc = "idle"
    /\ error = ""
    /\ records = <<>>
    /\ prev_components = <<>>
    /\ parent_commit = None
    /\ seen_trees = <<>>
    /\ record = None
    /\ components = <<>>
    /\ root_builder = EmptyBuilder
    /\ imports = <<>>
    /\ log = <<>>
    /\ fetches = <<>>

IdleJoin ==
    /\ futs = <<>>
    /\ polled = 0
    /\ writes = <<>>

IdleCmp ==
    /\ ver_a = <<>>
    /\ ver_b = <<>>
    /\ ord_ab = None
    /\ ord_ba = None

IdleBatch ==
    /\ batch_pc = "idle"
    /\ batch_result = None
    /\ comp_runs = <<>>
    /\ repos = <<>>
    /\ errors = <<>>

IdleTree ==
    /\ tar_data = <<>>
    /\ pos = 1
    /\ dirs = <<>>
    /\ keys = <<>>
    /\ finalized = <<>>
    /\ result = None
    /\ tpc = "idle"
    /\ conv = 0
    /\ first_data = <<>>
    /\ first_result = None

TreeInit ==
    /\ FreshRepo
    /\ bare = TRUE
    /\ IdleRun
    /\ IdleJoin
    /\ IdleCmp
    /\ IdleBatch
    /\ tar_data \in Archives
    /\ pos = 1
    /\ dirs = <<>>
    /\ keys = <<>>
    /\ finalized = <<>>
    /\ result = None
    /\ tpc = "entries"
    /\ conv = 1
    /\ first_data = tar_data
    /\ first_result = None

\* Lines 31-108: the loop reads the next entry.
NextEntry ==
    /\ tpc = "entries"
    /\ pos <= Len(tar_data)
    /\ LET r == ProcessEntry(dirs, odb, tar_data[pos]) IN
        /\ odb' = r.odb
        /\ IF r.err # ""
           THEN /\ result' = Some(Err(r.err))
                /\ tpc' = "done"
                /\ UNCHANGED <<dirs, pos>>
           ELSE /\ dirs' = r.dirs
                /\ pos' = pos + 1
                /\ UNCHANGED <<result, tpc>>
    /\ UNCHANGED <<commits, tags, branches, head, workdir, bare>>
    /\ UNCHANGED <<tar_data, keys, finalized, conv, first_data, first_result>>
    /\ UNCHANGED <<runVars, joinVars, cmpVars, batchVars>>

\* The archive is read and the keys are sorted, longest first; the root
\* accumulator is not ensured.
EndOfEntriesNoRoot ==
    /\ tpc = "entries"
    /\ pos > Len(tar_data)
    /\ dirs' = dirs
    /\ keys' \in SortedKeys(dirs')
    /\ tpc' = "finalize"
    /\ UNCHANGED repoVars
    /\ UNCHANGED <<tar_data, pos, finalized, result, conv, first_data, first_result>>
    /\ UNCHANGED <<runVars, joinVars, cmpVars, batchVars>>

\* Lines 110-118: the archive is read; the root accumulator is ensured and
\* the keys are sorted, longest first.
EndOfEntries ==
    /\ tpc = "entries"
    /\ pos > Len(tar_data)
    /\ dirs' = EnsureBuilders(dirs, {<<>>})
    /\ keys' \in SortedKeys(dirs')
    /\ tpc' = "finalize"
    /\ UNCHANGED repoVars
    /\ UNCHANGED <<tar_data, pos, finalized, result, conv, first_data, first_result>>
    /\ UNCHANGED <<runVars, joinVars, cmpVars, batchVars>>

\* Lines 120-147: one key of the sorted list is finalized; when the list
\* has run out the panic of line 147 ends the call.
FinalizeNext ==
    /\ tpc = "finalize"
    /\ IF keys = <<>>
       THEN /\ result' = Some(Err("panic"))
            /\ tpc' = "done"
            /\ UNCHANGED <<odb, dirs, finalized, keys>>
       ELSE LET r == FinalizeKey(dirs, odb, Head(keys)) IN
            /\ odb' = r.odb
            /\ dirs' = r.dirs
            /\ finalized' = Append(finalized, Head(keys))
            /\ keys' = Tail(keys)
            /\ IF r.done
               THEN result' = Some(r.result) /\ tpc' = "done"
               ELSE UNCHANGED <<result, tpc>>
    /\ UNCHANGED <<commits, tags, branches, head, workdir, bare>>
    /\ UNCHANGED <<tar_data, pos, conv, first_data, first_result>>
    /\ UNCHANGED <<runVars, joinVars, cmpVars, batchVars>>

\* A second call of tar_data_to_tree on the same repository, on the entries
\* of the first archive in any order (the identity included): dirs is a new
\* local map, the object store is the one the first call left.
ConvertAgain ==
    /\ tpc = "done"
    /\ conv = 1
    /\ first_result' = result
    /\ tar_data' \in Reorderings(first_data)
    /\ conv' = 2
    /\ pos' = 1
    /\ dirs' = <<>>
    /\ keys' = <<>>
    /\ finalized' = <<>>
    /\ result' = None
    /\ tpc' = "entries"
    /\ UNCHANGED repoVars
    /\ UNCHANGED first_data
    /\ UNCHANGED <<runVars, joinVars, cmpVars, batchVars>>

TreeNext == NextEntry \/ EndOfEntries \/ FinalizeNext \/ ConvertAgain

SpecTree == TreeInit /\ [][TreeNext]_vars


---------------------------------------------------------------------------
(* Claims about tar_data_to_tree *)

\* Every entry lives under one and the same top-level directory.
SingleTopLevel(a) ==
    /\ \A i \in 1..Len(a) : FindSlash(a[i].path) > 1
    /\ \A i, j \in 1..Len(a) :
          SubSeq(a[i].path, 1, FindSlash(a[i].path)) =
          SubSeq(a[j].path, 1, FindSlash(a[j].path))

\* No two non-directory entries are stored at the same place, that is in
\* the same directory accumulator under the same file name.
DistinctPlaces(a) ==
    \A i, j \in 1..Len(a) :
        (i # j /\ ~a[i].is_dir /\ ~a[j].is_dir
            /\ FindSlash(a[i].path) # 0 /\ FindSlash(a[j].path) # 0)
        => SplitDir(StripFirst(a[i].path)) # SplitDir(StripFirst(a[j].path))

\* Both conversions are over.
BothConverted == conv = 2 /\ tpc = "done"

\* The two conversions returned the same tree identifier (or both none).
SameTree ==
    /\ result[1].ok = first_result[1].ok
    /\ result[1].oid = first_result[1].oid

\* C9 as stated: for every archive whose entries all live under a single
\* top-level directory, the conversion of any permutation of the entries
\* returns the same tree identifier.
C9_AnyOrderSameTree ==
    (BothConverted /\ SingleTopLevel(first_data)) => SameTree

\* C9 amended: for every archive whose entries all live under a single
\* top-level directory and in which no two non-directory entries are stored
\* at the same place, the conversion of any permutation of the entries
\* returns the same tree identifier.
C9_AnyOrderSameTreeDistinctPlaces ==
    (BothConverted /\ SingleTopLevel(first_data) /\ DistinctPlaces(first_data))
        => SameTree

\* Two files of one top-level directory were converted in both orders and
\* gave a tree.
C9_Witness ==
    /\ BothConverted
    /\ SingleTopLevel(first_data)
    /\ DistinctPlaces(first_data)
    /\ Len(first_data) >= 2
    /\ tar_data # first_data
    /\ \A i \in 1..Len(first_data) : ~first_data[i].is_dir
    /\ result[1].ok

\* C10: two conversions of identical archive bytes, the second in a
\* repository that already holds the objects of the first, return the same
\* result, whatever order the accumulators of equal path length are
\* finalized in.
C10_SameBytesSameTree ==
    (BothConverted /\ tar_data = first_data) => result = first_result

\* The same archive was converted twice, with two accumulators of the same
\* path length to finalize, and gave a tree.
C10_Witness ==
    /\ BothConverted
    /\ tar_data = first_data
    /\ result[1].ok
    /\ \E i, j \in 1..Len(finalized) :
          i # j /\ Len(finalized[i]) = Len(finalized[j])
    /\ result[1].oid[1] \in odb


---------------------------------------------------------------------------
(* tar_data_to_tree as one call *)

\* The loop of lines 31-108 from entry i on.
RECURSIVE ReadEntries(_, _, _, _)
ReadEntries(tar, i, d, o) ==
    IF i > Len(tar) THEN [dirs |-> d, odb |-> o, err |-> ""]
    ELSE LET r == ProcessEntry(d, o, tar[i]) IN
         IF r.err # "" THEN r ELSE ReadEntries(tar, i + 1, r.dirs, r.odb)

\* The loop of lines 120-145 over the keys ks; line 147 when it runs out.
RECURSIVE FinalizeKeys(_, _, _)
FinalizeKeys(d, o, ks) ==
    IF ks = <<>> THEN [result |-> Err("panic"), odb |-> o]
    ELSE LET r == FinalizeKey(d, o, Head(ks)) IN
         IF r.done THEN [result |-> r.result, odb |-> r.odb]
         ELSE FinalizeKeys(r.dirs, r.odb, Tail(ks))

\* What a call of tar_data_to_tree on the archive `tar` and a repository
\* holding the objects o can return and leave in the object store: one
\* outcome for each order the map can hand out keys of the same length.
\* The reads of the archive are reads of a buffer in memory: they never
\* suspend the task, so the call runs without interleaving.
tar_data_to_tree(tar, o) ==
    LET r == ReadEntries(tar, 1, <<>>, o) IN
    IF r.err # "" THEN {[result |-> Err(r.err), odb |-> r.odb]}
    ELSE LET d == EnsureBuilders(r.dirs, {<<>>}) IN
         {FinalizeKeys(d, r.odb, ks) : ks \in SortedKeys(d)}

---------------------------------------------------------------------------
(* Repository operations of the history builders *)

\* HashMap::insert, and a reference written with force: k now maps to v.
Put(f, k, v) == [x \in (DOMAIN f) \cup {k} |-> IF x = k THEN v ELSE f[x]]

\* One more request sent for url.
CountFetch(f, url) == Put(f, url, (IF url \in DOMAIN f THEN f[url] ELSE 0) + 1)

RECURSIVE CountFetches(_, _)
CountFetches(f, urls) ==
    IF urls = <<>> THEN f ELSE CountFetches(CountFetch(f, Head(urls)), Tail(urls))

\* The parent list of lines 214-218 and 386-390.
Parents(parent) == IF parent # None THEN <<parent[1]>> ELSE <<>>

\* The commit has no parent, whatever came before.
CommitNoParents(tree, parent, message) ==
    [tree |-> tree, parents |-> <<>>, message |-> message]

\* repo.commit(None, sig, sig, message, tree, parents): the commit object,
\* named by its content (the signature and its time are fixed).
NewCommit(tree, parent, message) ==
    [tree |-> tree, parents |-> Parents(parent), message |-> message]

\* repo.tag(version, commit, sig, "tagging", false): an existing tag is kept.
TagKeep(t, version, commit) ==
    IF version \in DOMAIN t THEN t ELSE Put(t, version, commit)

\* repo.tag(version, commit, sig, "tagging", true): the tag is created or
\* moved.
TagForce(t, version, commit) == Put(t, version, commit)

AttachedHead(name) == [symbolic |-> TRUE, branch |-> name, commit |-> None]
DetachedHead(commit) == [symbolic |-> FALSE, branch |-> "", commit |-> Some(commit)]

\* repo.branch(name, commit, true): libgit2 refuses to force-update the
\* branch HEAD is attached to in a repository with working files.
BranchForce(b, h, isbare, name, commit) ==
    IF ~isbare /\ name \in DOMAIN b /\ h.symbolic /\ h.branch = name
    THEN [ok |-> FALSE, branches |-> b]
    ELSE [ok |-> TRUE, branches |-> Put(b, name, commit)]

\* reconcile_repo_to_commit without the set_head of line 163: HEAD is left
\* detached.
ReconcileStayDetached(b, h, w, isbare, name, commit) ==
    LET br == BranchForce(b, DetachedHead(commit), isbare, name, commit) IN
    IF isbare
    THEN [ok |-> br.ok, branches |-> br.branches, head |-> h, workdir |-> w]
    ELSE [ok |-> br.ok, branches |-> br.branches,
          head |-> DetachedHead(commit), workdir |-> Some(commit)]

\* reconcile_repo_to_commit (lines 150-170).
reconcile_repo_to_commit(b, h, w, isbare, name, commit) ==
    IF isbare
    THEN LET br == BranchForce(b, h, isbare, name, commit) IN
         [ok |-> br.ok, branches |-> br.branches, head |-> h, workdir |-> w]
    ELSE LET br == BranchForce(b, DetachedHead(commit), isbare, name, commit) IN
         IF ~br.ok
         THEN [ok |-> FALSE, branches |-> b, head |-> DetachedHead(commit), workdir |-> w]
         ELSE [ok |-> TRUE, branches |-> br.branches,
               head |-> AttachedHead(name), workdir |-> Some(commit)]

\* The end of a run that treats "no version" as an error.
FinishNeedsVersion(parent) ==
    IF parent = None
    THEN /\ pc' = "err"
         /\ error' = "no versions"
         /\ UNCHANGED <<branches, head, workdir>>
    ELSE LET r == reconcile_repo_to_commit(branches, head, workdir, bare,
                                           branch_name, parent[1]) IN
         /\ pc' = IF r.ok THEN "done" ELSE "err"
         /\ error' = IF r.ok THEN "" ELSE "updating branch to commit"
         /\ branches' = r.branches
         /\ head' = r.head
         /\ workdir' = r.workdir

\* Lines 250-254 and 419-423: the end of a run whose last commit is parent.
Finish(parent) ==
    IF parent = None
    THEN /\ pc' = "done"
         /\ UNCHANGED error
         /\ UNCHANGED <<branches, head, workdir>>
    ELSE LET r == reconcile_repo_to_commit(branches, head, workdir, bare,
                                           branch_name, parent[1]) IN
         /\ pc' = IF r.ok THEN "done" ELSE "err"
         /\ error' = IF r.ok THEN "" ELSE "updating branch to commit"
         /\ branches' = r.branches
         /\ head' = r.head
         /\ workdir' = r.workdir

LogEntry(version, outcome, commit) ==
    [version |-> version, outcome |-> outcome, commit |-> commit]


---------------------------------------------------------------------------
(* The inputs of a run: what the site lists and serves *)

\* The subsequences of s of at most n elements.
Subsequences(s, n) ==
    UNION {{[i \in 1..k |-> s[f[i]]] :
                f \in {g \in [1..k -> 1..Len(s)] :
                          \A i, j \in 1..k : i < j => g[i] < g[j]}} :
           k \in 0..n}

\* Records get_component_versions can return for the component "c", in the
\* order records.sort() leaves them: by file name (the derived Ord compares
\* component, then filename).  The version is the part of the file name
\* after its first hyphen, so two files can carry one version.
ComponentRecords ==
    << [component |-> "c", version |-> "1.0", url |-> "c/c-1.0"],
       [component |-> "c", version |-> "1.1", url |-> "c/c-1.1"],
       [component |-> "c", version |-> "2.0", url |-> "c/c-2.0"],
       [component |-> "c", version |-> "1.0", url |-> "c/d-1.0"] >>

ComponentRecordLists == Subsequences(ComponentRecords, MaxVersions)

\* Records of get_releases that match the release "macos", in the order
\* records.sort() leaves them: by entity, then by version (the derived Ord).
\* "mac-os-x" and "macos" both match (is_macos).
ReleaseRecords ==
    << [entity |-> "mac-os-x", version |-> "10.0"],
       [entity |-> "mac-os-x", version |-> "10.1"],
       [entity |-> "macos", version |-> "10.0"],
       [entity |-> "macos", version |-> "11.0"] >>

ReleaseRecordLists == Subsequences(ReleaseRecords, MaxVersions)

\* The component of an archive url is the first segment of its path
\* (download.rs lines 189-193).
ComponentOf(url) == IF url \in {"a/a-1", "a/a-2"} THEN <<"a">> ELSE <<"b">>

\* What get_release_components can return for one release: no component,
\* one, two of different names, one whose archive does not convert, and
\* one archive linked twice on the page.
ComponentLists ==
    { <<>>,
      <<"a/a-1">>,
      <<"a/a-1", "b/b-1">>,
      <<"a/a-2", "b/b-1">>,
      <<"a/a-1", "b/b-2">>,
      <<"a/a-1", "a/a-1">> }

\* The archive each url serves.  c/c-2.0 and b/b-2 hold a file whose mode
\* has neither a read nor an execute bit: their conversion fails.
ArchiveOf(url) ==
    CASE url = "c/c-1.0" -> << File(<<"t", "/", "a">>, 420, <<"x">>) >>
      [] url = "c/c-1.1" -> << File(<<"t", "/", "a">>, 493, <<"y">>),
                               File(<<"t", "/", "a", "/", "b">>, 256, <<"x">>) >>
      [] url = "c/c-2.0" -> << File(<<"t", "/", "a">>, 420, <<"x">>),
                               File(<<"t", "/", "b">>, 128, <<"x">>) >>
      [] url = "c/d-1.0" -> << File(<<"t", "/", "a">>, 420, <<"x">>) >>
      [] url = "a/a-1" -> << File(<<"t", "/", "a">>, 420, <<"x">>) >>
      [] url = "a/a-2" -> << File(<<"t", "/", "a", "/", "b">>, 256, <<"x">>),
                             File(<<"t", "/", "b", "/", "a">>, 0, <<"y">>) >>
      [] url = "b/b-1" -> << Link(<<"t", "/", "b">>, 511, <<"a">>) >>
      [] url = "b/b-2" -> << File(<<"t", "/", "b">>, 128, <<"x">>) >>

---------------------------------------------------------------------------
(* create_component_repository (git.rs lines 175-255) *)

\* The start of a run, but for what the repository holds.
RunStart ==
    /\ bare \in BOOLEAN
    /\ IdleTree
    /\ IdleJoin
    /\ IdleCmp
    /\ IdleBatch
    /\ job \in {"component", "release"}
    \* create_release_repository creates the repository before its first
    \* request (line 320), create_component_repository after it (line 189).
    /\ inited = (job = "release")
    /\ pc = IF job = "component" THEN "versions" ELSE "releases"
    /\ error = ""
    /\ records = <<>>
    /\ parent_commit = None
    /\ seen_trees = <<>>
    /\ record = None
    /\ components = <<>>
    /\ prev_components = <<>>
    /\ root_builder = EmptyBuilder
    /\ imports = <<>>
    /\ log = <<>>
    /\ fetches = <<>>

\* The branch is moved to the last commit each time the loop takes a
\* record.
CompStartMovesBranch(rs, parent) ==
    IF rs = <<>>
    THEN /\ record' = None
         /\ records' = <<>>
         /\ UNCHANGED fetches
         /\ Finish(parent)
    ELSE /\ record' = Some(Head(rs))
         /\ records' = Tail(rs)
         /\ fetches' = CountFetch(fetches, Head(rs).url)
         /\ pc' = "fetching"
         /\ UNCHANGED error
         /\ branches' = IF parent # None
                        THEN Put(branches, branch_name, parent[1])
                        ELSE branches
         /\ UNCHANGED <<head, workdir>>

\* The for loop of line 205 takes its next record from rs and sends the
\* request of line 206, or ends and lines 250-254 run.
CompStartNext(rs, parent) ==
    IF rs = <<>>
    THEN /\ record' = None
         /\ records' = <<>>
         /\ UNCHANGED fetches
         /\ Finish(parent)
    ELSE /\ record' = Some(Head(rs))
         /\ records' = Tail(rs)
         /\ fetches' = CountFetch(fetches, Head(rs).url)
         /\ pc' = "fetching"
         /\ UNCHANGED error
         /\ UNCHANGED <<branches, head, workdir>>

\* Lines 182-185: get_component_versions fails.
CompVersionsFailed ==
    /\ job = "component"
    /\ pc = "versions"
    /\ pc' = "err"
    /\ error' = "fetching component versions"
    /\ UNCHANGED repoVars
    /\ UNCHANGED <<treeVars, joinVars, cmpVars, batchVars>>
    /\ UNCHANGED <<job, inited, records, parent_commit, seen_trees, record,
                   components, prev_components, root_builder, imports, log, fetches>>

\* Lines 182-209: get_component_versions returns the records; the
\* repository is created and the loop starts.
CompVersionsListed ==
    /\ job = "component"
    /\ pc = "versions"
    /\ inited' = TRUE
    /\ \E rs \in ComponentRecordLists : CompStartNext(rs, None)
    /\ UNCHANGED <<odb, commits, tags, bare>>
    /\ UNCHANGED <<treeVars, joinVars, cmpVars, batchVars>>
    /\ UNCHANGED <<job, parent_commit, seen_trees, components, prev_components,
                   root_builder, imports, log>>

\* The request for the archive fails and the version is skipped.
CompFetchSkipped ==
    /\ job = "component"
    /\ pc = "fetching"
    /\ log' = Append(log, LogEntry(record[1].version, "fetch_failed", None))
    /\ CompStartNext(records, parent_commit)
    /\ UNCHANGED <<odb, commits, tags, bare>>
    /\ UNCHANGED <<treeVars, joinVars, cmpVars, batchVars>>
    /\ UNCHANGED <<job, inited, parent_commit, seen_trees, components,
                   prev_components, root_builder, imports>>

\* Lines 206-209: the request for the archive fails.
CompFetchFailed ==
    /\ job = "component"
    /\ pc = "fetching"
    /\ log' = Append(log, LogEntry(record[1].version, "fetch_failed", None))
    /\ pc' = "err"
    /\ error' = "fetching component tarball"
    /\ UNCHANGED repoVars
    /\ UNCHANGED <<treeVars, joinVars, cmpVars, batchVars>>
    /\ UNCHANGED <<job, inited, records, parent_commit, seen_trees, record,
                   components, prev_components, root_builder, imports, fetches>>

\* Lines 206-248: the archive arrives and is converted, committed and
\* tagged; then the loop goes on.
CompFetched ==
    /\ job = "component"
    /\ pc = "fetching"
    /\ \E c \in tar_data_to_tree(ArchiveOf(record[1].url), odb) :
        /\ odb' = c.odb
        /\ IF ~c.result.ok
           THEN /\ log' = Append(log, LogEntry(record[1].version, "convert_failed", None))
                /\ pc' = "err"
                /\ error' = c.result.err
                /\ UNCHANGED <<commits, tags, branches, head, workdir>>
                /\ UNCHANGED <<records, parent_commit, record, fetches>>
           ELSE LET commit == NewCommit(c.result.oid[1], parent_commit,
                                        <<record[1].component, record[1].version,
                                          record[1].url>>)
                IN
                /\ commits' = commits \cup {commit}
                /\ tags' = TagForce(tags, record[1].version, commit)
                /\ parent_commit' = Some(commit)
                /\ log' = Append(log, LogEntry(record[1].version, "committed", Some(commit)))
                /\ CompStartNext(records, Some(commit))
    /\ UNCHANGED bare
    /\ UNCHANGED <<treeVars, joinVars, cmpVars, batchVars>>
    /\ UNCHANGED <<job, inited, seen_trees, components, prev_components,
                   root_builder, imports>>


---------------------------------------------------------------------------
(* create_release_repository and import_release_component                 *)
(* (git.rs lines 286-424)                                                  *)

\* No component found in the cache is inserted.
InsertNoneSeen(rb, comps, seen) == rb

\* Lines 361-368, the builder: the components found in the cache are
\* inserted into the root builder, in order.
RECURSIVE InsertSeen(_, _, _)
InsertSeen(rb, comps, seen) ==
    IF comps = <<>> THEN rb
    ELSE InsertSeen(
            IF Head(comps) \in DOMAIN seen
            THEN TreeBuilderInsert(rb, ComponentOf(Head(comps)), seen[Head(comps)],
                                   GIT_TREE_MODE)
            ELSE rb,
            Tail(comps), seen)

\* Every component is fetched, the cache is not looked at.
AllMissing(comps, seen) == comps

\* Lines 361-368, `missing`: the components not found in the cache.
RECURSIVE Missing(_, _)
Missing(comps, seen) ==
    IF comps = <<>> THEN <<>>
    ELSE IF Head(comps) \in DOMAIN seen
         THEN Missing(Tail(comps), seen)
         ELSE <<Head(comps)>> \o Missing(Tail(comps), seen)

\* A future of import_release_component whose request is under way.
PendingImport(url) == [url |-> url, state |-> "pending", tree |-> None]

\* The results are taken in order and an Err is passed over like None.
RECURSIVE CollectSkipErr(_, _, _, _)
CollectSkipErr(im, i, seen, rb) ==
    IF i > Len(im) THEN [err |-> FALSE, seen |-> seen, builder |-> rb]
    ELSE IF im[i].state = "some"
    THEN CollectSkipErr(im, i + 1, Put(seen, im[i].url, im[i].tree[1]),
                        TreeBuilderInsert(rb, ComponentOf(im[i].url), im[i].tree[1],
                                          GIT_TREE_MODE))
    ELSE CollectSkipErr(im, i + 1, seen, rb)

\* The results are taken in order and a None ends the run like an Err.
RECURSIVE CollectNoneEnds(_, _, _, _)
CollectNoneEnds(im, i, seen, rb) ==
    IF i > Len(im) THEN [err |-> FALSE, seen |-> seen, builder |-> rb]
    ELSE IF im[i].state \in {"err", "none"}
    THEN [err |-> TRUE, seen |-> seen, builder |-> rb]
    ELSE CollectNoneEnds(im, i + 1, Put(seen, im[i].url, im[i].tree[1]),
                         TreeBuilderInsert(rb, ComponentOf(im[i].url), im[i].tree[1],
                                           GIT_TREE_MODE))

\* The results are taken in order and a None is recorded in the cache
\* with an empty tree.
RECURSIVE CollectCachesNone(_, _, _, _)
CollectCachesNone(im, i, seen, rb) ==
    IF i > Len(im) THEN [err |-> FALSE, seen |-> seen, builder |-> rb]
    ELSE IF im[i].state = "err" THEN [err |-> TRUE, seen |-> seen, builder |-> rb]
    ELSE IF im[i].state = "some"
    THEN CollectCachesNone(im, i + 1, Put(seen, im[i].url, im[i].tree[1]),
                           TreeBuilderInsert(rb, ComponentOf(im[i].url), im[i].tree[1],
                                             GIT_TREE_MODE))
    ELSE CollectCachesNone(im, i + 1, Put(seen, im[i].url, TreeWrite(EmptyBuilder)), rb)

\* Lines 376-381 from result i on: the results of join_all are taken in
\* order; an Err ends the run (the ? of line 377), Some is recorded in the
\* cache and in the root builder, None is passed over.
RECURSIVE CollectImports(_, _, _, _)
CollectImports(im, i, seen, rb) ==
    IF i > Len(im) THEN [err |-> FALSE, seen |-> seen, builder |-> rb]
    ELSE IF im[i].state = "err" THEN [err |-> TRUE, seen |-> seen, builder |-> rb]
    ELSE IF im[i].state = "some"
    THEN CollectImports(im, i + 1, Put(seen, im[i].url, im[i].tree[1]),
                        TreeBuilderInsert(rb, ComponentOf(im[i].url), im[i].tree[1],
                                          GIT_TREE_MODE))
    ELSE CollectImports(im, i + 1, seen, rb)

\* The for loop of line 332 takes its next record from rs and sends the
\* request of line 341, or ends and lines 419-423 run.
RelStartNext(rs, parent) ==
    IF rs = <<>>
    THEN /\ record' = None
         /\ records' = <<>>
         /\ Finish(parent)
    ELSE /\ record' = Some(Head(rs))
         /\ records' = Tail(rs)
         /\ pc' = "components"
         /\ UNCHANGED error
         /\ UNCHANGED <<branches, head, workdir>>

\* Lines 383-417: the root tree of the version is written, committed and
\* tagged; then the loop goes on.  rb is the root builder, o the object
\* store when join_all returns.
RelCommit(rb, o) ==
    LET tree_oid == TreeWrite(rb)
        commit == NewCommit(tree_oid, parent_commit,
                            <<record[1].entity, record[1].version>>)
    IN
    /\ root_builder' = rb
    /\ odb' = o \cup {tree_oid}
    /\ commits' = commits \cup {commit}
    /\ tags' = TagForce(tags, record[1].version, commit)
    /\ parent_commit' = Some(commit)
    /\ log' = Append(log, LogEntry(record[1].version, "committed", Some(commit)))
    /\ RelStartNext(records, Some(commit))

\* Lines 370-417 once every future of join_all has completed.
RelJoined(im, o) ==
    LET r == CollectImports(im, 1, seen_trees, root_builder) IN
    /\ seen_trees' = r.seen
    /\ IF r.err
       THEN /\ root_builder' = r.builder
            /\ odb' = o
            /\ log' = Append(log, LogEntry(record[1].version, "convert_failed", None))
            /\ pc' = "err"
            /\ error' = "converting to Git tree"
            /\ UNCHANGED <<commits, tags, branches, head, workdir>>
            /\ UNCHANGED <<records, parent_commit, record>>
       ELSE RelCommit(r.builder, o)

\* One future has completed and its result is taken at once, before the
\* other futures complete.
RelImportTakenAtOnce(im, o) ==
    /\ imports' = im
    /\ IF \E j \in 1..Len(im) : im[j].state = "pending"
       THEN /\ odb' = o
            /\ seen_trees' = CollectImports(im, 1, seen_trees, root_builder).seen
            /\ root_builder' = CollectImports(im, 1, seen_trees, root_builder).builder
            /\ UNCHANGED <<commits, tags, branches, head, workdir>>
            /\ UNCHANGED <<pc, error, records, parent_commit, record, log>>
       ELSE RelJoined(im, o)

\* One future of join_all has completed, leaving the futures im and the
\* object store o: join_all returns when none is pending.
RelImportCompleted(im, o) ==
    /\ imports' = im
    /\ IF \E j \in 1..Len(im) : im[j].state = "pending"
       THEN /\ odb' = o
            /\ UNCHANGED <<commits, tags, branches, head, workdir>>
            /\ UNCHANGED <<pc, error, records, parent_commit, seen_trees, record,
                           root_builder, log>>
       ELSE RelJoined(im, o)

\* Lines 332-335: get_releases fails.
RelReleasesFailed ==
    /\ job = "release"
    /\ pc = "releases"
    /\ pc' = "err"
    /\ error' = "fetching releases"
    /\ UNCHANGED repoVars
    /\ UNCHANGED <<treeVars, joinVars, cmpVars, batchVars>>
    /\ UNCHANGED <<job, inited, records, parent_commit, seen_trees, record,
                   components, prev_components, root_builder, imports, log, fetches>>

\* Lines 332-349: get_releases returns the records of the release; the
\* loop starts.
RelReleasesListed ==
    /\ job = "release"
    /\ pc = "releases"
    /\ \E rs \in ReleaseRecordLists : RelStartNext(rs, None)
    /\ UNCHANGED <<odb, commits, tags, bare>>
    /\ UNCHANGED <<treeVars, joinVars, cmpVars, batchVars>>
    /\ UNCHANGED <<job, inited, parent_commit, seen_trees, components,
                   prev_components, root_builder, imports, log, fetches>>

\* Lines 341-349: get_release_components fails.
RelComponentsFailed ==
    /\ job = "release"
    /\ pc = "components"
    /\ log' = Append(log, LogEntry(record[1].version, "list_failed", None))
    /\ pc' = "err"
    /\ error' = "fetching components for release"
    /\ UNCHANGED repoVars
    /\ UNCHANGED <<treeVars, joinVars, cmpVars, batchVars>>
    /\ UNCHANGED <<job, inited, records, parent_commit, seen_trees, record,
                   components, prev_components, root_builder, imports, fetches>>

\* Lines 341-375: get_release_components returns the components; those in
\* the cache go into a new root builder, the others are handed to join_all,
\* which sends their requests.  With nothing to fetch join_all returns at
\* once and the version is committed.
RelComponentsListed ==
    /\ job = "release"
    /\ pc = "components"
    /\ \E comps \in ComponentLists :
        LET rb == InsertSeen(EmptyBuilder, comps, seen_trees)
            missing == Missing(comps, seen_trees)
        IN
        /\ components' = comps
        /\ prev_components' = components
        /\ imports' = [i \in 1..Len(missing) |-> PendingImport(missing[i])]
        /\ fetches' = CountFetches(fetches, missing)
        /\ IF missing = <<>>
           THEN /\ UNCHANGED seen_trees
                /\ RelCommit(rb, odb)
           ELSE /\ root_builder' = rb
                /\ pc' = "joining"
                /\ UNCHANGED error
                /\ UNCHANGED <<odb, commits, tags, branches, head, workdir>>
                /\ UNCHANGED <<records, parent_commit, seen_trees, record, log>>
    /\ UNCHANGED bare
    /\ UNCHANGED <<treeVars, joinVars, cmpVars, batchVars>>
    /\ UNCHANGED <<job, inited>>

\* The request of future i fails and is sent again.
RelImportRetried(i) ==
    /\ job = "release"
    /\ pc = "joining"
    /\ imports[i].state = "pending"
    /\ fetches' = CountFetch(fetches, imports[i].url)
    /\ UNCHANGED repoVars
    /\ UNCHANGED <<treeVars, joinVars, cmpVars, batchVars>>
    /\ UNCHANGED <<job, inited, pc, error, records, parent_commit, seen_trees, record,
                   components, prev_components, root_builder, imports, log>>

\* Lines 291-304: the request of future i fails (an error of the transport,
\* the timeout of the client, a status that is not a success); the future
\* returns Ok(None) with a warning.
RelImportFailed(i) ==
    /\ job = "release"
    /\ pc = "joining"
    /\ imports[i].state = "pending"
    /\ RelImportCompleted([imports EXCEPT ![i].state = "none"], odb)
    /\ UNCHANGED bare
    /\ UNCHANGED <<treeVars, joinVars, cmpVars, batchVars>>
    /\ UNCHANGED <<job, inited, components, prev_components, fetches>>

\* Lines 291-312: the archive of future i arrives and is converted; the
\* future returns Ok(Some((component, tree_oid))) or the conversion's Err.
RelImported(i) ==
    /\ job = "release"
    /\ pc = "joining"
    /\ imports[i].state = "pending"
    /\ \E c \in tar_data_to_tree(ArchiveOf(imports[i].url), odb) :
        RelImportCompleted(
            [imports EXCEPT ![i] =
                IF c.result.ok
                THEN [url |-> imports[i].url, state |-> "some", tree |-> c.result.oid]
                ELSE [url |-> imports[i].url, state |-> "err", tree |-> None]],
            c.odb)
    /\ UNCHANGED bare
    /\ UNCHANGED <<treeVars, joinVars, cmpVars, batchVars>>
    /\ UNCHANGED <<job, inited, components, prev_components, fetches>>

\* A run into a new directory.
RunInit ==
    /\ RunStart
    /\ FreshRepo

\* The version an earlier run has tagged, and the message of its commit.
PreviousVersion(j) == IF j = "component" THEN "1.0" ELSE "10.0"
PreviousMessage(j) ==
    IF j = "component" THEN <<"c", "1.0", "c/c-1.0">> ELSE <<"mac-os-x", "10.0">>

\* The commit of an earlier run of one version whose tree was empty (an
\* archive of directories only, a release without components).
PreviousCommit(j) == NewCommit(TreeWrite(EmptyBuilder), None, PreviousMessage(j))

\* Repository::init_opts on the directory of an earlier run (lines 189-195
\* and 320-326) opens the repository as that run left it.
PreviousRepo ==
    /\ odb = {TreeWrite(EmptyBuilder)}
    /\ commits = {PreviousCommit(job)}
    /\ tags = Put(<<>>, PreviousVersion(job), PreviousCommit(job))
    /\ branches = Put(<<>>, branch_name, PreviousCommit(job))
    /\ head = AttachedHead(branch_name)
    /\ workdir = IF bare THEN None ELSE Some(PreviousCommit(job))

\* A run into a new directory or into the directory of an earlier run.
RerunInit ==
    /\ RunStart
    /\ FreshRepo \/ PreviousRepo

RunNext ==
    \/ CompVersionsFailed
    \/ CompVersionsListed
    \/ CompFetchFailed
    \/ CompFetched
    \/ RelReleasesFailed
    \/ RelReleasesListed
    \/ RelComponentsFailed
    \/ RelComponentsListed
    \/ \E i \in DOMAIN imports : RelImportFailed(i)
    \/ \E i \in DOMAIN imports : RelImported(i)

SpecRun == RunInit /\ [][RunNext]_vars

SpecRerun == RerunInit /\ [][RunNext]_vars

\* Every request sent returns: with a response, an error, or the timeout
\* error of the client (download.rs lines 109-117) when the transport is
\* stuck.  Between two requests the run does not wait.
SpecRunFair == SpecRun /\ WF_vars(RunNext)


---------------------------------------------------------------------------
(* join_all over the imports of one release version (git.rs lines 370-381), *)
(* with the conversion of each import taken one object write at a time.     *)
(* join_all polls its futures in the task that awaits it, one at a time; a  *)
(* future that is polled runs until one of its awaits is pending.           *)

\* The archive urls a version can lack in the cache.
ImportUrls == {"a/a-1", "a/a-2", "b/b-1", "b/b-2"}

\* The lists `missing` that join_all is given.
ImportLists == SeqsUpTo(ImportUrls, MaxImports)

\* The future import_release_component(downloader, repo, component) before
\* its first poll has returned: its request is sent.
NewImport(url) ==
    [url |-> url, at |-> "request", ok |-> TRUE, pos |-> 1, dirs |-> <<>>,
     keys |-> <<>>, state |-> "pending", tree |-> None]

JoinInit ==
    /\ FreshRepo
    /\ bare = TRUE
    /\ IdleTree
    /\ IdleRun
    /\ IdleCmp
    /\ IdleBatch
    /\ \E missing \in ImportLists : futs = [i \in 1..Len(missing) |-> NewImport(missing[i])]
    /\ polled = 0
    /\ writes = <<>>

\* The future that runs after future i has awaited its reader as if the
\* reader were a stream that is not ready: i is suspended.
AfterReadSuspends(i) == 0

\* The future that runs after future i has awaited its reader (lines 31 and
\* 55): the reader is a Cursor over bytes in memory (line 22), its reads are
\* ready at once, so the poll of i goes on.
AfterRead(i) == i

\* Lines 291-304, the environment's part: the response of the request of
\* future i arrives, or the request fails; the future is woken.
ResponseArrives(i) ==
    /\ futs[i].at = "request"
    /\ \E ok \in BOOLEAN : futs' = [futs EXCEPT ![i].at = "response", ![i].ok = ok]
    /\ UNCHANGED <<polled, writes>>
    /\ UNCHANGED repoVars
    /\ UNCHANGED <<treeVars, runVars, cmpVars, batchVars>>

\* join_all polls future i, which was woken: after a failed request it
\* returns Ok(None) (lines 296-303); after a response it enters
\* tar_data_to_tree (line 306); suspended in it, it resumes.
Poll(i) ==
    /\ polled = 0
    /\ futs[i].at \in {"response", "entries", "finalize"}
    /\ IF futs[i].at = "response" /\ ~futs[i].ok
       THEN /\ futs' = [futs EXCEPT ![i].at = "done", ![i].state = "none"]
            /\ polled' = 0
       ELSE /\ futs' = [futs EXCEPT ![i].at =
                          IF futs[i].at = "response" THEN "entries" ELSE futs[i].at]
            /\ polled' = i
    /\ UNCHANGED writes
    /\ UNCHANGED repoVars
    /\ UNCHANGED <<treeVars, runVars, cmpVars, batchVars>>

\* The object writes of future i are recorded.
Written(i, oids) == writes \o [k \in 1..Len(oids) |-> [by |-> i, oid |-> oids[k]]]

\* Lines 31-108 in future i: one entry of its archive.
ReadEntry(i) ==
    /\ polled = i
    /\ futs[i].at = "entries"
    /\ futs[i].pos <= Len(ArchiveOf(futs[i].url))
    /\ LET entry == ArchiveOf(futs[i].url)[futs[i].pos]
           r == ProcessEntry(futs[i].dirs, odb, entry)
       IN
       /\ odb' = r.odb
       /\ writes' = IF ~entry.is_dir /\ EntryModeAndBuf(entry).err = ""
                    THEN Written(i, <<Blob(EntryModeAndBuf(entry).buf)>>)
                    ELSE writes
       /\ IF r.err # ""
          THEN /\ futs' = [futs EXCEPT ![i].at = "done", ![i].state = "err"]
               /\ polled' = 0
          ELSE /\ futs' = [futs EXCEPT ![i].pos = futs[i].pos + 1, ![i].dirs = r.dirs]
               /\ polled' = AfterRead(i)
    /\ UNCHANGED <<commits, tags, branches, head, workdir, bare>>
    /\ UNCHANGED <<treeVars, runVars, cmpVars, batchVars>>

\* Lines 110-118 in future i: its archive is read.
EndOfArchive(i) ==
    /\ polled = i
    /\ futs[i].at = "entries"
    /\ futs[i].pos > Len(ArchiveOf(futs[i].url))
    /\ \E ks \in SortedKeys(EnsureBuilders(futs[i].dirs, {<<>>})) :
          futs' = [futs EXCEPT ![i].at = "finalize",
                               ![i].dirs = EnsureBuilders(futs[i].dirs, {<<>>}),
                               ![i].keys = ks]
    /\ polled' = AfterRead(i)
    /\ UNCHANGED writes
    /\ UNCHANGED repoVars
    /\ UNCHANGED <<treeVars, runVars, cmpVars, batchVars>>

\* Lines 120-147 in future i: one accumulator is finalized; with the root
\* tree the future returns Ok(Some((component, tree_oid))) (line 312).
FinalizeTree(i) ==
    /\ polled = i
    /\ futs[i].at = "finalize"
    /\ IF futs[i].keys = <<>>
       THEN /\ futs' = [futs EXCEPT ![i].at = "done", ![i].state = "err"]
            /\ polled' = 0
            /\ UNCHANGED <<odb, writes>>
       ELSE LET r == FinalizeKey(futs[i].dirs, odb, Head(futs[i].keys)) IN
            /\ odb' = r.odb
            /\ writes' = Written(i, <<TreeWrite(futs[i].dirs[Head(futs[i].keys)])>>)
            /\ IF r.done
               THEN /\ futs' = [futs EXCEPT ![i].at = "done",
                                   ![i].state = IF r.result.ok THEN "some" ELSE "err",
                                   ![i].tree = r.result.oid,
                                   ![i].keys = Tail(futs[i].keys)]
                    /\ polled' = 0
               ELSE /\ futs' = [futs EXCEPT ![i].dirs = r.dirs,
                                            ![i].keys = Tail(futs[i].keys)]
                    /\ polled' = i
    /\ UNCHANGED <<commits, tags, branches, head, workdir, bare>>
    /\ UNCHANGED <<treeVars, runVars, cmpVars, batchVars>>

JoinNext ==
    \/ \E i \in DOMAIN futs : ResponseArrives(i)
    \/ \E i \in DOMAIN futs : Poll(i)
    \/ \E i \in DOMAIN futs : ReadEntry(i)
    \/ \E i \in DOMAIN futs : EndOfArchive(i)
    \/ \E i \in DOMAIN futs : FinalizeTree(i)

SpecJoin == JoinInit /\ [][JoinNext]_vars


---------------------------------------------------------------------------
(* compare_version_string (download.rs lines 26-47).  A string is the      *)
(* sequence of its bytes, each a one-letter string.                        *)

Digits == <<"0", "1", "2", "3", "4", "5", "6", "7", "8", "9">>
IsDigit(c) == \E k \in 1..10 : Digits[k] = c
DigitValue(c) == (CHOOSE k \in 1..10 : Digits[k] = c) - 1

\* The byte of a character (ASCII).
ByteOf(c) ==
    IF IsDigit(c) THEN 48 + DigitValue(c)
    ELSE CASE c = "+" -> 43 [] c = "-" -> 45 [] c = "." -> 46
           [] c = "a" -> 97 [] c = "b" -> 98 [] c = "x" -> 120

\* str::cmp: the order of the byte strings x and y.
RECURSIVE StrCmp(_, _)
StrCmp(x, y) ==
    IF x = <<>> /\ y = <<>> THEN "Equal"
    ELSE IF x = <<>> THEN "Less"
    ELSE IF y = <<>> THEN "Greater"
    ELSE IF ByteOf(Head(x)) < ByteOf(Head(y)) THEN "Less"
    ELSE IF ByteOf(Head(x)) > ByteOf(Head(y)) THEN "Greater"
    ELSE StrCmp(Tail(x), Tail(y))

\* a.split('.'): the parts between the '.' (one empty part for "").
RECURSIVE SplitDots(_)
SplitDots(str) ==
    IF \A i \in 1..Len(str) : str[i] # "."
    THEN <<str>>
    ELSE LET i == CHOOSE k \in 1..Len(str) :
                      str[k] = "." /\ \A j \in 1..(k - 1) : str[j] # "."
         IN <<SubSeq(str, 1, i - 1)>> \o SplitDots(SubSeq(str, i + 1, Len(str)))

RECURSIVE StripZeros(_)
StripZeros(ds) ==
    IF ds # <<>> /\ Head(ds) = "0" THEN StripZeros(Tail(ds)) ELSE ds

\* Two numbers are ordered as the texts of their digits.
NumCmpAsText(x, y) == StrCmp(x, y)

\* The order of two numbers written in decimal with no leading zero.
NumCmp(x, y) ==
    IF Len(x) < Len(y) THEN "Less"
    ELSE IF Len(x) > Len(y) THEN "Greater"
    ELSE StrCmp(x, y)

U32_MAX == <<"4", "2", "9", "4", "9", "6", "7", "2", "9", "5">>

\* u32::from_str(part): an optional '+', then one digit or more, and a
\* value of at most 2^32 - 1; None is Err.  The number is kept as its
\* digits without leading zero.
ParseU32(part) ==
    LET ds == IF part # <<>> /\ Head(part) = "+" THEN Tail(part) ELSE part IN
    IF ds = <<>> \/ \E i \in 1..Len(ds) : ~IsDigit(ds[i]) THEN None
    ELSE IF NumCmp(StripZeros(ds), U32_MAX) = "Greater" THEN None
    ELSE Some(StripZeros(ds))

\* The loop runs over the positions of the longer list, a missing part of
\* either list counting as 0.
RECURSIVE CompareFromPadded(_, _, _, _, _)
CompareFromPadded(a_parts, b_parts, i, a, b) ==
    IF i > Len(a_parts) /\ i > Len(b_parts) THEN StrCmp(a, b)
    ELSE LET a_int == ParseU32(IF i <= Len(a_parts) THEN a_parts[i] ELSE <<"0">>)
             b_int == ParseU32(IF i <= Len(b_parts) THEN b_parts[i] ELSE <<"0">>)
         IN
         IF a_int # None /\ b_int # None /\ NumCmp(a_int[1], b_int[1]) # "Equal"
         THEN NumCmp(a_int[1], b_int[1])
         ELSE CompareFromPadded(a_parts, b_parts, i + 1, a, b)

\* The loop of line 30 from part i on, then line 46.
RECURSIVE CompareFrom(_, _, _, _, _)
CompareFrom(a_parts, b_parts, i, a, b) ==
    IF i > Len(a_parts) THEN StrCmp(a, b)
    ELSE LET a_int == ParseU32(a_parts[i])
             b_int == ParseU32(IF i <= Len(b_parts) THEN b_parts[i] ELSE <<"0">>)
         IN
         IF a_int # None /\ b_int # None /\ NumCmp(a_int[1], b_int[1]) # "Equal"
         THEN NumCmp(a_int[1], b_int[1])
         ELSE CompareFrom(a_parts, b_parts, i + 1, a, b)

compare_version_string(a, b) == CompareFrom(SplitDots(a), SplitDots(b), 1, a, b)

\* Version strings: 1.9, 1.10, 1, 1.0, 01.5, 2, 1.x.9, 1.x.10, 10, 9,
\* 4294967296, 1.01, 1.b, 1.a.5 and +1.
VersionStrings ==
    { <<"1", ".", "9">>,
      <<"1", ".", "1", "0">>,
      <<"1">>,
      <<"1", ".", "0">>,
      <<"0", "1", ".", "5">>,
      <<"2">>,
      <<"1", ".", "x", ".", "9">>,
      <<"1", ".", "x", ".", "1", "0">>,
      <<"1", "0">>,
      <<"9">>,
      <<"4", "2", "9", "4", "9", "6", "7", "2", "9", "6">>,
      <<"1", ".", "0", "1">>,
      <<"1", ".", "b">>,
      <<"1", ".", "a", ".", "5">>,
      <<"+", "1">> }

CmpInit ==
    /\ FreshRepo
    /\ bare = TRUE
    /\ IdleTree
    /\ IdleRun
    /\ IdleJoin
    /\ IdleBatch
    /\ ver_a \in VersionStrings
    /\ ver_b \in VersionStrings
    /\ ord_ab = None
    /\ ord_ba = None

\* The two strings are compared in both directions.
CompareBoth ==
    /\ ord_ab = None
    /\ ord_ab' = Some(compare_version_string(ver_a, ver_b))
    /\ ord_ba' = Some(compare_version_string(ver_b, ver_a))
    /\ UNCHANGED <<ver_a, ver_b>>
    /\ UNCHANGED repoVars
    /\ UNCHANGED <<treeVars, runVars, joinVars, batchVars>>

CmpNext == CompareBoth

SpecCmp == CmpInit /\ [][CmpNext]_vars


---------------------------------------------------------------------------
(* create_components_repositories (git.rs lines 257-284): one              *)
(* create_component_repository future per component, all handed to         *)
(* join_all.  Each future is taken from one request to the next; what an   *)
(* archive converts to is an input of the batch.                           *)

\* The component names get_components can return, in the order of the
\* BTreeSet.
ComponentNames == <<"c", "d", "e">>

\* The versions a component can have, in the order of records.sort().
BatchVersions == <<"1.0", "1.1", "2.0">>

BatchRecordLists ==
    {SubSeq(BatchVersions, 1, k) :
        k \in {j \in 0..MaxBatchVersions : j <= Len(BatchVersions)}}

\* Every run is given the destination itself.
RepoPathShared(c) == <<"dest">>

\* path.join(c) of line 270.
RepoPath(c) == <<"dest", c>>

\* A create_component_repository future at its first request (line 182).
NewBatchRun ==
    [pc |-> "versions", error |-> "", records |-> <<>>, record |-> None,
     parent_commit |-> None]

\* What Repository::init_opts creates (lines 189-195).
EmptyRepo == [commits |-> <<>>, tags |-> {}, branch |-> None]

\* The future has not returned.
Running(run) == run.pc \in {"versions", "fetching"}

\* The batch fails when a run has failed.
BatchJoinedTry(runs) ==
    LET Failed(c) == c \in DOMAIN runs /\ runs[c].pc = "err" IN
    [result |-> IF \E c \in DOMAIN runs : runs[c].pc = "err" THEN "Err" ELSE "Ok",
     errors |-> SelectSeq(ComponentNames, Failed)]

\* Lines 265-283 once join_all has returned: the errors are collected in
\* the order of the components and printed, and the batch returns Ok.
BatchJoined(runs) ==
    LET Failed(c) == c \in DOMAIN runs /\ runs[c].pc = "err" IN
    [result |-> "Ok", errors |-> SelectSeq(ComponentNames, Failed)]

\* The futures are now `runs`: join_all returns when none is pending.
BatchCompleted(runs) ==
    /\ comp_runs' = runs
    /\ IF \E c \in DOMAIN runs : Running(runs[c])
       THEN /\ batch_pc' = "joining"
            /\ UNCHANGED <<batch_result, errors>>
       ELSE /\ batch_pc' = "returned"
            /\ batch_result' = Some(BatchJoined(runs).result)
            /\ errors' = BatchJoined(runs).errors

\* The loop of line 205 of one future takes its next record from rs, or
\* ends.
BatchStartNext(run, rs, parent) ==
    IF rs = <<>>
    THEN [run EXCEPT !.pc = "done", !.records = <<>>, !.record = None,
                     !.parent_commit = parent]
    ELSE [run EXCEPT !.pc = "fetching", !.records = Tail(rs), !.record = Some(Head(rs)),
                     !.parent_commit = parent]

\* Lines 250-252 of one future: the branch is put at the last commit when
\* the loop has ended.
BatchReconcile(repo, rs, parent) ==
    IF rs = <<>> /\ parent # None THEN [repo EXCEPT !.branch = parent] ELSE repo

BatchInit ==
    /\ FreshRepo
    /\ bare = TRUE
    /\ IdleTree
    /\ IdleRun
    /\ IdleJoin
    /\ IdleCmp
    /\ batch_pc = "listing"
    /\ batch_result = None
    /\ comp_runs = <<>>
    /\ repos = <<>>
    /\ errors = <<>>

\* Lines 260-263: get_components fails.
BatchListFailed ==
    /\ batch_pc = "listing"
    /\ batch_pc' = "returned"
    /\ batch_result' = Some("Err")
    /\ UNCHANGED <<comp_runs, repos, errors>>
    /\ UNCHANGED repoVars
    /\ UNCHANGED <<treeVars, runVars, joinVars, cmpVars>>

\* Lines 260-274: get_components returns the names; join_all polls every
\* future, which sends its first request.
BatchListed ==
    /\ batch_pc = "listing"
    /\ \E cs \in SUBSET {ComponentNames[i] : i \in DOMAIN ComponentNames} :
          BatchCompleted([c \in cs |-> NewBatchRun])
    /\ UNCHANGED repos
    /\ UNCHANGED repoVars
    /\ UNCHANGED <<treeVars, runVars, joinVars, cmpVars>>

\* Lines 182-185 of the future of c: get_component_versions fails.
RunVersionsFailed(c) ==
    /\ batch_pc = "joining"
    /\ comp_runs[c].pc = "versions"
    /\ BatchCompleted([comp_runs EXCEPT ![c].pc = "err",
                                        ![c].error = "fetching component versions"])
    /\ UNCHANGED repos
    /\ UNCHANGED repoVars
    /\ UNCHANGED <<treeVars, runVars, joinVars, cmpVars>>

\* Lines 182-209 of the future of c: the records arrive, the repository is
\* created or opened at its path and the loop starts.
RunVersionsListed(c) ==
    /\ batch_pc = "joining"
    /\ comp_runs[c].pc = "versions"
    /\ \E rs \in BatchRecordLists :
          /\ BatchCompleted([comp_runs EXCEPT ![c] = BatchStartNext(comp_runs[c], rs, None)])
          /\ repos' = IF RepoPath(c) \in DOMAIN repos
                      THEN repos
                      ELSE Put(repos, RepoPath(c), EmptyRepo)
    /\ UNCHANGED repoVars
    /\ UNCHANGED <<treeVars, runVars, joinVars, cmpVars>>

\* Lines 206-209 of the future of c: the request for the archive fails.
RunFetchFailed(c) ==
    /\ batch_pc = "joining"
    /\ comp_runs[c].pc = "fetching"
    /\ BatchCompleted([comp_runs EXCEPT ![c].pc = "err",
                                        ![c].error = "fetching component tarball"])
    /\ UNCHANGED repos
    /\ UNCHANGED repoVars
    /\ UNCHANGED <<treeVars, runVars, joinVars, cmpVars>>

\* Lines 206-252 of the future of c: the archive arrives; its conversion
\* fails, or the version is committed and tagged in the repository of c and
\* the loop goes on.
RunFetched(c) ==
    /\ batch_pc = "joining"
    /\ comp_runs[c].pc = "fetching"
    /\ \E converted \in BOOLEAN :
          IF ~converted
          THEN /\ BatchCompleted([comp_runs EXCEPT ![c].pc = "err",
                                                   ![c].error = "InvalidArchiveMode"])
               /\ UNCHANGED repos
          ELSE LET commit == <<c, comp_runs[c].record[1]>>
                   repo == repos[RepoPath(c)]
                   committed == [repo EXCEPT !.commits = Append(repo.commits, commit),
                                             !.tags = repo.tags \cup {commit[2]}]
               IN
               /\ BatchCompleted([comp_runs EXCEPT ![c] =
                      BatchStartNext(comp_runs[c], comp_runs[c].records, Some(commit))])
               /\ repos' = [repos EXCEPT ![RepoPath(c)] =
                      BatchReconcile(committed, comp_runs[c].records, Some(commit))]
    /\ UNCHANGED repoVars
    /\ UNCHANGED <<treeVars, runVars, joinVars, cmpVars>>

\* One step of the future of c.
RunStepOf(c) ==
    \/ RunVersionsFailed(c)
    \/ RunVersionsListed(c)
    \/ RunFetchFailed(c)
    \/ RunFetched(c)

BatchNext ==
    \/ BatchListFailed
    \/ BatchListed
    \/ \E c \in DOMAIN comp_runs : RunVersionsFailed(c)
    \/ \E c \in DOMAIN comp_runs : RunVersionsListed(c)
    \/ \E c \in DOMAIN comp_runs : RunFetchFailed(c)
    \/ \E c \in DOMAIN comp_runs : RunFetched(c)

SpecBatch == BatchInit /\ [][BatchNext]_vars


---------------------------------------------------------------------------
(* Claims about the history builders *)

Last(s) == s[Len(s)]
Range(s) == {s[i] : i \in DOMAIN s}

IsCommitted(e) == e.outcome = "committed"

\* The versions committed so far, in order.
CommittedLog == SelectSeq(log, IsCommitted)

\* The commits are those of the versions committed, chained in order.
CommitChain(cl) ==
    /\ Cardinality(commits) = Len(cl)
    /\ commits = {cl[i].commit[1] : i \in 1..Len(cl)}
    /\ \A i \in 1..Len(cl) :
          cl[i].commit[1].parents = IF i = 1 THEN <<>> ELSE <<cl[i - 1].commit[1]>>

\* There is one tag per version string committed, at the commit of the
\* last version that carries the string.
TagsAtLastOfVersion(cl) ==
    /\ DOMAIN tags = {cl[i].version : i \in 1..Len(cl)}
    /\ \A i \in 1..Len(cl) :
          (\A j \in (i + 1)..Len(cl) : cl[j].version # cl[i].version)
              => tags[cl[i].version] = cl[i].commit[1]

\* C1 as stated: after N versions are processed the repository holds
\* exactly N commits, chained in order, and exactly N tags, one per
\* version, each at that version's commit.
C1_ChainAndOneTagPerVersion ==
    /\ CommitChain(CommittedLog)
    /\ Cardinality(DOMAIN tags) = Len(CommittedLog)
    /\ \A i \in 1..Len(CommittedLog) :
          /\ CommittedLog[i].version \in DOMAIN tags
          /\ tags[CommittedLog[i].version] = CommittedLog[i].commit[1]

\* C1 amended: after N versions are processed the repository holds exactly
\* N commits, the first without parent and every later one with the commit
\* of the version before as its only parent, and one tag per distinct
\* version string, at the commit of the last version processed that
\* carries the string.
C1_ChainAndTagPerVersionString ==
    /\ CommitChain(CommittedLog)
    /\ TagsAtLastOfVersion(CommittedLog)

\* A run of three versions of different names has ended.
C1_Witness ==
    /\ pc = "done"
    /\ Len(CommittedLog) = 3
    /\ Cardinality(DOMAIN tags) = 3
    /\ Cardinality(commits) = 3

\* The step in which join_all returns: the last pending import completes.
JoinReturns == job = "release" /\ pc = "joining" /\ pc' # "joining"

\* The last import of the component `name` that returned a tree.
IsLastSome(im, i) ==
    /\ im[i].state = "some"
    /\ \A j \in (i + 1)..Len(im) :
          ~(im[j].state = "some" /\ ComponentOf(im[j].url) = ComponentOf(im[i].url))

\* C2: when join_all returns and an import failed to fetch (while none
\* failed to convert), the version is committed and tagged with a root tree
\* that holds every component imported under its name and omits the failed
\* one, and the run goes on to the next version.
C2_Step ==
    (/\ JoinReturns
     /\ \E i \in DOMAIN imports' : imports'[i].state = "none"
     /\ \A i \in DOMAIN imports' : imports'[i].state # "err")
    =>
    /\ pc' = IF records = <<>> THEN "done" ELSE "components"
    /\ error' = ""
    /\ log' = Append(log, LogEntry(record[1].version, "committed", parent_commit'))
    /\ parent_commit' # None
    /\ parent_commit'[1] \in commits'
    /\ parent_commit'[1].tree = TreeWrite(root_builder')
    /\ TreeWrite(root_builder') \in odb'
    /\ tags'[record[1].version] = parent_commit'[1]
    /\ \A i \in DOMAIN imports' :
          IsLastSome(imports', i) =>
              /\ ComponentOf(imports'[i].url) \in DOMAIN root_builder'
              /\ root_builder'[ComponentOf(imports'[i].url)] =
                    [oid |-> imports'[i].tree[1], mode |-> GIT_TREE_MODE]
    /\ \A i \in DOMAIN imports' :
          (/\ imports'[i].state = "none"
           /\ \A j \in DOMAIN imports' :
                 imports'[j].state = "some"
                    => ComponentOf(imports'[j].url) # ComponentOf(imports'[i].url)
           /\ \A k \in DOMAIN components :
                 components[k] \in DOMAIN seen_trees
                    => ComponentOf(components[k]) # ComponentOf(imports'[i].url))
          => ComponentOf(imports'[i].url) \notin DOMAIN root_builder'

C2_FetchFailureOmitsComponent == [][C2_Step]_vars

\* A version was committed with component a imported and component b's
\* fetch failed, and the run went on.
C2_Witness ==
    /\ job = "release"
    /\ pc = "components"
    /\ log # <<>>
    /\ Last(log).outcome = "committed"
    /\ Len(imports) = 2
    /\ imports[1].state = "some"
    /\ imports[2].state = "none"
    /\ DOMAIN root_builder = {ComponentOf(imports[1].url)}
    /\ Last(log).version \in DOMAIN tags

\* Some import of the current version returned the error of a conversion.
SomeImportErr == job = "release" /\ \E i \in DOMAIN imports : imports[i].state = "err"
NoImportPending == \A i \in DOMAIN imports : imports[i].state # "pending"

Stopped == ~ENABLED RunNext

\* The commits and tags are those of the versions committed before the
\* failed one, and the branch was not created.
OnlyEarlierVersions ==
    /\ CommitChain(CommittedLog)
    /\ TagsAtLastOfVersion(CommittedLog)
    /\ Len(CommittedLog) = Len(log) - 1
    /\ \A i \in 1..(Len(log) - 1) : IsCommitted(log[i])

C4_ComponentFailureAbortsRun ==
    (job = "component" /\ log # <<>> /\ ~IsCommitted(Last(log))) =>
        /\ pc = "err"
        /\ error \in {"fetching component tarball", "InvalidArchiveMode", "TreeInsert"}
        /\ Stopped
        /\ record # None
        /\ Last(log).version = record[1].version
        /\ fetches[record[1].url] = 1
        /\ OnlyEarlierVersions
        /\ parent_commit = IF Len(log) = 1 THEN None ELSE log[Len(log) - 1].commit

\* The second version of a component failed after the first was committed,
\* and a third version is left unprocessed.
C4_Witness ==
    /\ job = "component"
    /\ pc = "err"
    /\ Len(log) = 2
    /\ ~IsCommitted(Last(log))
    /\ Cardinality(commits) = 1
    /\ DOMAIN tags = {log[1].version}
    /\ records # <<>>

\* C5 as stated: when a run has ended, a url listed in the last two
\* versions was fetched exactly once.
C5_FetchedOnce ==
    (job = "release" /\ pc = "done") =>
        \A url \in Range(components) \cap Range(prev_components) :
            url \in DOMAIN fetches /\ fetches[url] = 1

\* C5 amended: a url whose archive was fetched and converted in some
\* version (it is in the dedup cache) is never requested again in the run:
\* a later version that lists it produces its tree entry from the cache,
\* and the number of fetches of the url stays what it was (1 when the url
\* was listed once and fetched successfully the first time it was listed).
C5_Step ==
    \A url \in DOMAIN seen_trees :
        /\ url \in DOMAIN fetches
        /\ fetches'[url] = fetches[url]
        /\ \A i \in DOMAIN imports' : imports'[i].url = url => imports' = imports

C5_CachedNeverFetchedAgain == [][C5_Step]_vars

\* A url listed in two consecutive versions was fetched once.
C5_Witness ==
    /\ job = "release"
    /\ pc = "done"
    /\ Len(CommittedLog) >= 2
    /\ \E url \in Range(components) \cap Range(prev_components) :
          /\ url \in DOMAIN seen_trees
          /\ fetches[url] = 1
          /\ ComponentOf(url) \in DOMAIN root_builder

\* The step in which the components of a version are listed.
ComponentsListed == job = "release" /\ pc = "components" /\ error' = ""

\* C6: the cache lives for the whole run.  An entry of the cache is never
\* changed or removed, and it is entered with the tree an import of its url
\* returned; a version that lists a cached url starts no import for it,
\* sends no request, and inserts the cached tree under the component's
\* name in directory mode.
C6_Step ==
    /\ \A url \in DOMAIN seen_trees :
          url \in DOMAIN seen_trees' /\ seen_trees'[url] = seen_trees[url]
    /\ \A url \in (DOMAIN seen_trees') \ (DOMAIN seen_trees) :
          \E i \in DOMAIN imports' :
              /\ imports'[i].url = url
              /\ imports'[i].state = "some"
              /\ imports'[i].tree[1] = seen_trees'[url]
    /\ ComponentsListed =>
          \A k \in DOMAIN components' :
              components'[k] \in DOMAIN seen_trees =>
                  /\ \A i \in DOMAIN imports' : imports'[i].url # components'[k]
                  /\ fetches'[components'[k]] = fetches[components'[k]]
                  /\ (\A m \in (k + 1)..Len(components') :
                         components'[m] \in DOMAIN seen_trees
                            => ComponentOf(components'[m]) # ComponentOf(components'[k]))
                     => /\ ComponentOf(components'[k]) \in DOMAIN root_builder'
                        /\ root_builder'[ComponentOf(components'[k])] =
                              [oid |-> seen_trees[components'[k]], mode |-> GIT_TREE_MODE]

C6_CacheReusedForWholeRun == [][C6_Step]_vars

\* The archive a/a-1 was imported in the first version, is not listed in
\* the second and is taken from the cache in the third.
C6_Witness ==
    /\ job = "release"
    /\ pc = "done"
    /\ Len(CommittedLog) = 3
    /\ "a/a-1" \in Range(components)
    /\ "a/a-1" \notin Range(prev_components)
    /\ "a/a-1" \in DOMAIN seen_trees
    /\ fetches["a/a-1"] = 1
    /\ imports = <<>>
    /\ root_builder[<<"a">>].oid = seen_trees["a/a-1"]

\* C7: when a run has ended after committing a version, the branch main
\* is at the commit of the last version and HEAD is attached to it; with
\* working files (not bare) they are reset to that commit.
C7_BranchAtLastCommit ==
    (pc = "done" /\ parent_commit # None) =>
        /\ parent_commit = Last(log).commit
        /\ branch_name \in DOMAIN branches
        /\ branches[branch_name] = parent_commit[1]
        /\ DOMAIN branches = {branch_name}
        /\ head = AttachedHead(branch_name)
        /\ workdir = IF bare THEN None ELSE parent_commit

\* A run of two versions into a repository with working files has ended.
C7_Witness ==
    /\ pc = "done"
    /\ ~bare
    /\ Len(CommittedLog) >= 2
    /\ workdir = parent_commit
    /\ branches[branch_name] = Last(log).commit[1]

\* The listing of the versions returned and there was no version.
NoVersion ==
    /\ pc \notin {"versions", "releases"}
    /\ error \notin {"fetching component versions", "fetching releases"}
    /\ log = <<>>
    /\ record = None

\* C8: when the version sequence is empty the run succeeds: the repository
\* is initialized, holds no commit and no tag, and the branch is not
\* created.
C8_EmptyRunLeavesRepositoryEmpty ==
    NoVersion =>
        /\ pc = "done"
        /\ error = ""
        /\ inited
        /\ commits = {}
        /\ DOMAIN tags = {}
        /\ DOMAIN branches = {}
        /\ parent_commit = None
        /\ head = AttachedHead(branch_name)
        /\ workdir = None

\* A component run over an empty version list has ended.
C8_Witness ==
    /\ job = "component"
    /\ pc = "done"
    /\ log = <<>>
    /\ inited
    /\ commits = {}


---------------------------------------------------------------------------
(* Claims about the entries and the accumulators of tar_data_to_tree *)

\* The bit of weight w (a power of two) is set in the number m.
BitSet(m, w) == (m \div w) % 2 = 1

\* Some execute bit (0o100, 0o010, 0o001) is set.
AnyExecBit(m) == \E w \in {64, 8, 1} : BitSet(m, w)
\* Some read bit (0o400, 0o040, 0o004) is set.
AnyReadBit(m) == \E w \in {256, 32, 4} : BitSet(m, w)

\* A regular entry: not a directory and without link name.
IsRegular(e) == ~e.is_dir /\ e.link_name = <<>>

\* The entry is placed in an accumulator: its path holds a '/' and the
\* name after the last '/' is not empty.
IsPlaced(e) ==
    /\ ~e.is_dir
    /\ FindSlash(e.path) # 0
    /\ SplitDir(StripFirst(e.path)).filename # <<>>

\* The accumulator entry that the loop wrote for the entry e.
StoredFor(e) ==
    LET sp == SplitDir(StripFirst(e.path)) IN dirs[sp.dir][sp.filename]

\* The loop has just read e == tar_data[pos - 1] and goes on.
JustRead == tpc = "entries" /\ pos > 1

\* C11: the mode stored for a regular entry is 0o100755 when an execute
\* bit is set, else 0o100644 when a read bit is set or the raw mode is 0;
\* an entry with any other raw mode ends the conversion with the
\* invalid-archive-mode error, so no such entry is ever passed over.
C11_ModeFromPermissionBits ==
    /\ (JustRead /\ IsRegular(tar_data[pos - 1]) /\ IsPlaced(tar_data[pos - 1])) =>
          StoredFor(tar_data[pos - 1]) =
             [oid |-> Blob(tar_data[pos - 1].data),
              mode |-> IF AnyExecBit(tar_data[pos - 1].mode) THEN 33261 ELSE 33188]
    /\ \A i \in 1..Len(tar_data) :
          (IsRegular(tar_data[i]) /\ (i < pos \/ tpc = "finalize"))
             => \/ AnyExecBit(tar_data[i].mode)
                \/ AnyReadBit(tar_data[i].mode)
                \/ tar_data[i].mode = 0
    /\ (tpc = "done" /\ pos <= Len(tar_data) /\ IsRegular(tar_data[pos])
          /\ ~AnyExecBit(tar_data[pos].mode) /\ ~AnyReadBit(tar_data[pos].mode)
          /\ tar_data[pos].mode # 0)
       => result = Some(Err("InvalidArchiveMode"))
    /\ (result # None /\ result[1].err = "InvalidArchiveMode") =>
          /\ tpc = "done"
          /\ pos <= Len(tar_data)
          /\ IsRegular(tar_data[pos])
          /\ ~AnyExecBit(tar_data[pos].mode)
          /\ ~AnyReadBit(tar_data[pos].mode)
          /\ tar_data[pos].mode # 0

\* An entry with only an execute bit was stored executable and then an
\* entry of raw mode 0 was stored as a regular file.
C11_Witness ==
    /\ JustRead
    /\ pos = 3
    /\ IsRegular(tar_data[1]) /\ IsPlaced(tar_data[1])
    /\ tar_data[1].mode = 1
    /\ StoredFor(tar_data[1]).mode = 33261
    /\ IsRegular(tar_data[2]) /\ IsPlaced(tar_data[2])
    /\ tar_data[2].mode = 0
    /\ StoredFor(tar_data[2]).mode = 33188

\* The segments of a path: the byte strings between its '/'.
RECURSIVE Segments(_)
Segments(path) ==
    IF FindSlash(path) = 0 THEN <<path>>
    ELSE <<SubSeq(path, 1, FindSlash(path) - 1)>>
            \o Segments(SubSeq(path, FindSlash(path) + 1, Len(path)))

\* What a look-up gives when the path names nothing in the tree.
NoEntry == [oid |-> Blob(<<>>), mode |-> -1]

\* The entry found in the tree object `tree` by walking down the segments.
RECURSIVE EntryAt(_, _)
EntryAt(tree, segs) ==
    IF tree.type # "tree" \/ Head(segs) \notin DOMAIN tree.entries THEN NoEntry
    ELSE IF Len(segs) = 1 THEN tree.entries[Head(segs)]
    ELSE EntryAt(tree.entries[Head(segs)].oid, Tail(segs))

\* The blob and mode that the content and the raw mode of e call for.
ExpectedEntry(e) ==
    IF e.link_name # <<>> THEN [oid |-> Blob(e.link_name), mode |-> 40960]
    ELSE [oid |-> Blob(e.data),
          mode |-> IF AnyExecBit(e.mode) THEN 33261 ELSE 33188]

\* The conversion has returned a tree.
ReturnedTree == tpc = "done" /\ result # None /\ result[1].ok
RootTree == result[1].oid[1]

\* The entry is a file or link below a top-level directory.
UnderTop(e) == ~e.is_dir /\ FindSlash(e.path) # 0

\* The segments p1, ..., pn, name of an entry top/p1/.../pn/name.
Stripped(e) == Tail(Segments(e.path))

\* The first name of a list of segments: an empty first segment stands for
\* the directory itself.
FirstName(segs) == IF Head(segs) = <<>> /\ Len(segs) > 1 THEN segs[2] ELSE Head(segs)

\* The entry is found in the returned tree at its path without the first
\* segment, with its content and mapped mode.
FoundStripped(e) == EntryAt(RootTree, Stripped(e)) = ExpectedEntry(e)

\* Every name of the root tree is the first segment that remains of some
\* entry once the top-level directory is removed: the top-level directory
\* itself gives no name.
RootNamesAreStripped ==
    \A n \in DOMAIN RootTree.entries :
        \E i \in 1..Len(tar_data) :
            /\ UnderTop(tar_data[i])
            /\ FirstName(Stripped(tar_data[i])) = n

\* C12 as stated: in the tree returned, every file entry top/p1/.../pn/name
\* is found at p1/.../pn/name with its content and mapped mode (top/name in
\* the root tree) and the top-level directory gives no name.
C12_EveryEntryAtStrippedPath ==
    ReturnedTree =>
        /\ \A i \in 1..Len(tar_data) : UnderTop(tar_data[i]) => FoundStripped(tar_data[i])
        /\ RootNamesAreStripped

\* No segment of the path after the top-level directory is empty.
PlainPath(e) == \A k \in 1..Len(Stripped(e)) : Stripped(e)[k] # <<>>

\* The sequence s is a proper prefix of the sequence t.
ProperPrefix(s, t) == Len(s) < Len(t) /\ SubSeq(t, 1, Len(s)) = s

\* The place of an entry in the tree: its segments after the top-level
\* directory, where an empty first segment stands for the root.
Place(e) ==
    IF Head(Stripped(e)) = <<>> /\ Len(Stripped(e)) > 1
    THEN Tail(Stripped(e)) ELSE Stripped(e)

\* No later entry of the archive has the place of entry i, and no entry is
\* stored in a directory that carries the path of entry i.
NotReplaced(a, i) ==
    \A j \in 1..Len(a) :
        UnderTop(a[j]) =>
            /\ j > i => Place(a[j]) # Place(a[i])
            /\ ~ProperPrefix(Place(a[i]), Place(a[j]))

\* C12 amended: in the tree returned, every file entry top/p1/.../pn/name
\* whose segments are not empty, that no later entry of the same path
\* replaces and whose path is not also a directory of the archive, is found
\* at p1/.../pn/name with its content and mapped mode (top/name in the root
\* tree), and the top-level directory gives no name.
C12_EntryAtStrippedPathUnlessReplaced ==
    ReturnedTree =>
        /\ \A i \in 1..Len(tar_data) :
              (UnderTop(tar_data[i]) /\ PlainPath(tar_data[i]) /\ NotReplaced(tar_data, i))
                 => FoundStripped(tar_data[i])
        /\ RootNamesAreStripped

\* The archive of t/a/b/c and t/b gave a tree with a/b/c and b.
C12_Witness ==
    /\ ReturnedTree
    /\ Len(tar_data) = 2
    /\ tar_data[1].path = <<"t", "/", "a", "/", "b", "/", "c">>
    /\ tar_data[2].path = <<"t", "/", "b">>
    /\ EntryAt(RootTree, <<<<"a">>, <<"b">>, <<"c">>>>) = ExpectedEntry(tar_data[1])
    /\ EntryAt(RootTree, <<<<"b">>>>) = ExpectedEntry(tar_data[2])
    /\ DOMAIN RootTree.entries = {<<"a">>, <<"b">>}

\* The entry is a directory or its path holds a '/'.
NotTopLevelFile(e) == e.is_dir \/ FindSlash(e.path) # 0

\* The archive without its non-directory entries whose path holds no '/'.
WithoutTopLevelFiles(a) == SelectSeq(a, NotTopLevelFile)

\* C13: a non-directory entry whose path holds no '/' is skipped and is
\* never an error: whatever its mode or content, the conversion returns what
\* the conversion of the archive without such entries returns.
C13_TopLevelFileIsSkipped ==
    (tpc = "done" /\ result # None) =>
        result[1] \in
           {r.result : r \in tar_data_to_tree(WithoutTopLevelFiles(tar_data), {})}

\* The archive was read to its end without error.
ReadWithoutError == pos > Len(tar_data)

\* The call has returned after the archive was read without error.
ReturnedAfterRead == tpc = "done" /\ result # None /\ ReadWithoutError

\* At finalization the root accumulator exists and is the last key.
RootIsLastKey ==
    tpc = "finalize" =>
        /\ <<>> \in DOMAIN dirs
        /\ keys # <<>>
        /\ keys[Len(keys)] = <<>>
        /\ \A i \in 1..(Len(keys) - 1) : keys[i] # <<>>

\* The call returned the tree of the root accumulator, finalized last.
ReturnedRootTree ==
    /\ result[1].ok
    /\ keys = <<>>
    /\ finalized # <<>>
    /\ finalized[Len(finalized)] = <<>>
    /\ result[1].oid[1] = TreeWrite(dirs[<<>>])
    /\ result[1].oid[1] \in odb

\* No entry of the archive was placed in an accumulator.
NothingPlaced == \A i \in 1..Len(tar_data) : ~UnderTop(tar_data[i])

NeverPanics == result # None => result[1].err # "panic"

LastFinalizedHasEmptyName ==
    /\ finalized # <<>>
    /\ finalized[Len(finalized)] # <<>>
    /\ finalized[Len(finalized)][Len(finalized[Len(finalized)])] = "/"

ParentOf(key) ==
    IF RFindSlash(key) = 0 THEN <<>> ELSE SubSeq(key, 1, RFindSlash(key) - 1)
NameOf(key) == SubSeq(key, RFindSlash(key) + 1, Len(key))

\* The directories whose tree is recorded in the accumulator `key`.
ChildrenOf(d, key) == {c \in DOMAIN d : c # <<>> /\ ParentOf(c) = key}

\* The loop of line 120 finalizes the accumulator Head(keys) in this step.
Finalizes == tpc = "finalize" /\ keys # <<>> /\ finalized' = Append(finalized, Head(keys))

\* An accumulator, once created, is kept with its entries until the call
\* ends: no path gets a second accumulator.
KeepsAccumulators ==
    (conv' = conv /\ tpc # "done") =>
        \A k \in DOMAIN dirs :
            /\ k \in DOMAIN dirs'
            /\ \A n \in DOMAIN dirs[k] : n \in DOMAIN dirs'[k]

\* The accumulator finalized was not finalized before, all its child
\* directories were, and (when it is not the root) its parent exists, is
\* not finalized yet and receives its tree in directory mode.
FinalizesBottomUp ==
    Finalizes =>
        /\ Head(keys) \in DOMAIN dirs
        /\ Head(keys) \notin Range(finalized)
        /\ ChildrenOf(dirs, Head(keys)) \subseteq Range(finalized)
        /\ TreeWrite(dirs[Head(keys)]) \in odb'
        /\ Head(keys) # <<>> =>
              /\ ParentOf(Head(keys)) \in DOMAIN dirs
              /\ ParentOf(Head(keys)) \notin Range(finalized')
              /\ ParentOf(Head(keys)) \in Range(keys')
              /\ tpc' = "finalize" =>
                    dirs'[ParentOf(Head(keys))][NameOf(Head(keys))] =
                       [oid |-> TreeWrite(dirs[Head(keys)]), mode |-> GIT_TREE_MODE]
              /\ tpc' = "done" => result' = Some(Err("TreeInsert"))

\* When the call returns a tree every accumulator was finalized, each once.
AllFinalizedOnce ==
    /\ Cardinality(Range(finalized)) = Len(finalized)
    /\ Range(finalized) \subseteq DOMAIN dirs
    /\ ReturnedTree => Range(finalized) = DOMAIN dirs

\* C15: within one call a directory path never gets a second accumulator;
\* an accumulator is never finalized twice and, when the call returns a
\* tree, every accumulator was finalized once; finalization is bottom-up:
\* when an accumulator is finalized all its child directories have been
\* finalized and recorded in it, and the parent of a non-root accumulator
\* exists and is not finalized yet (the look-up of the parent never fails).
C15_OneAccumulatorFinalizedBottomUp ==
    /\ [](AllFinalizedOnce /\ NeverPanics)
    /\ [][KeepsAccumulators /\ FinalizesBottomUp]_vars

\* The accumulators a/b, a and the root were finalized in this order and
\* the call returned the root tree.
C15_Witness ==
    /\ ReturnedTree
    /\ finalized = <<<<"a", "/", "b">>, <<"a">>, <<>>>>
    /\ EntryAt(RootTree, <<<<"a">>, <<"b">>>>).mode = GIT_TREE_MODE


---------------------------------------------------------------------------
(* Claims about the imports of one release version *)

\* Some import of the version is still in flight.
InFlight(im) == \E i \in DOMAIN im : im[i].state = "pending"

\* C16: while an import of the version is in flight the dedup cache and the
\* root builder are not written and no root tree is written or committed;
\* a step that writes the cache or commits the root tree leaves no import
\* in flight, and the results it records are those of all the imports.
C16_Step ==
    /\ (job = "release" /\ InFlight(imports')) =>
          /\ seen_trees' = seen_trees
          /\ commits' = commits
          /\ tags' = tags
          /\ log' = log
          /\ pc' = "joining"
          /\ pc = "joining" => root_builder' = root_builder
    /\ (job = "release" /\ (seen_trees' # seen_trees \/ commits' # commits)) =>
          /\ ~InFlight(imports')
          /\ \A i \in DOMAIN imports' :
                imports'[i].state = "some" => imports'[i].url \in DOMAIN seen_trees'
    /\ (job = "release" /\ commits' # commits) =>
          /\ TreeWrite(root_builder') \in odb'
          /\ parent_commit'[1].tree = TreeWrite(root_builder')

C16_WritesAfterJoin == [][C16_Step]_vars

\* One import of the version has returned its tree while another is in
\* flight, and the cache does not hold the tree yet.
C16_Witness ==
    /\ job = "release"
    /\ pc = "joining"
    /\ InFlight(imports)
    /\ \E i \in DOMAIN imports :
          /\ imports[i].state = "some"
          /\ imports[i].tree[1] \in odb
          /\ imports[i].url \notin DOMAIN seen_trees
          /\ ComponentOf(imports[i].url) \notin DOMAIN root_builder

\* The future is in tar_data_to_tree.
Converting(f) == f.at \in {"entries", "finalize"}

\* C17: the object writes of the imports of one version are not
\* interleaved: between two writes of one import's conversion there is no
\* write of another import, at most one import is in its conversion at a
\* time, and it is the one join_all is polling.
C17_WritesNotInterleaved ==
    /\ \A a, b, c \in DOMAIN writes :
          (a < b /\ b < c /\ writes[a].by = writes[c].by) => writes[b].by = writes[a].by
    /\ \A i, j \in DOMAIN futs : (Converting(futs[i]) /\ Converting(futs[j])) => i = j
    /\ \A i \in DOMAIN futs : Converting(futs[i]) <=> polled = i

\* Two imports have converted their archives, the second launched first,
\* each with several object writes.
C17_Witness ==
    /\ Len(futs) = 2
    /\ futs[1].state = "some"
    /\ futs[2].state = "some"
    /\ writes # <<>>
    /\ writes[1].by = 2
    /\ writes[Len(writes)].by = 1
    /\ Cardinality({k \in DOMAIN writes : writes[k].by = 1}) >= 2
    /\ Cardinality({k \in DOMAIN writes : writes[k].by = 2}) >= 2


---------------------------------------------------------------------------
(* Claims about compare_version_string *)

Compared == ord_ab # None /\ ord_ba # None

\* A numeric segment: one decimal digit or more.
NumericSegment(part) == part # <<>> /\ \A i \in 1..Len(part) : IsDigit(part[i])

\* Segment i of a list of segments, a missing one counting as 0.
SegmentAt(parts, i) == IF i <= Len(parts) THEN parts[i] ELSE <<"0">>

\* The digits ds written with n digits, zeros in front.
Padded(ds, n) == [k \in 1..n |-> IF k <= n - Len(ds) THEN "0" ELSE ds[k - (n - Len(ds))]]

\* The order of the magnitudes of two numeric segments: that of their
\* first different digit once both are written with as many digits.
MagnitudeCmp(x, y) ==
    LET n == IF Len(x) > Len(y) THEN Len(x) ELSE Len(y)
        px == Padded(x, n)
        py == Padded(y, n)
        diff == {k \in 1..n : px[k] # py[k]}
    IN
    IF diff = {} THEN "Equal"
    ELSE LET k == CHOOSE m \in diff : \A j \in diff : m <= j IN
         IF DigitValue(px[k]) < DigitValue(py[k]) THEN "Less" ELSE "Greater"

MaxOf(m, n) == IF m > n THEN m ELSE n

\* The strings a and b differ only in numeric segments.
DifferOnlyInNumbers(a, b) ==
    /\ a # b
    /\ \A i \in 1..MaxOf(Len(SplitDots(a)), Len(SplitDots(b))) :
          \/ /\ i <= Len(SplitDots(a))
             /\ i <= Len(SplitDots(b))
             /\ SplitDots(a)[i] = SplitDots(b)[i]
          \/ /\ NumericSegment(SegmentAt(SplitDots(a), i))
             /\ NumericSegment(SegmentAt(SplitDots(b), i))

\* The segments at which the magnitudes of a and b differ.
MagnitudeDiffers(a, b) ==
    {i \in 1..MaxOf(Len(SplitDots(a)), Len(SplitDots(b))) :
        /\ NumericSegment(SegmentAt(SplitDots(a), i))
        /\ NumericSegment(SegmentAt(SplitDots(b), i))
        /\ MagnitudeCmp(SegmentAt(SplitDots(a), i), SegmentAt(SplitDots(b), i)) # "Equal"}

\* The order of the magnitudes of the first segment of a and b that differ
\* in magnitude.
MagnitudeOrder(a, b) ==
    LET i == CHOOSE m \in MagnitudeDiffers(a, b) : \A j \in MagnitudeDiffers(a, b) : m <= j
    IN MagnitudeCmp(SegmentAt(SplitDots(a), i), SegmentAt(SplitDots(b), i))

Reverse(ord) ==
    CASE ord = "Less" -> "Greater" [] ord = "Greater" -> "Less" [] OTHER -> "Equal"

\* C18: for version strings a and b that differ only in numeric segments,
\* compare_version_string(a, b) is the order of the magnitudes of the
\* first segment in which they differ, and compare_version_string(b, a) is
\* the reverse of compare_version_string(a, b).
C18_OrderedByMagnitude ==
    (Compared /\ DifferOnlyInNumbers(ver_a, ver_b)) =>
        /\ MagnitudeDiffers(ver_a, ver_b) # {} => ord_ab[1] = MagnitudeOrder(ver_a, ver_b)
        /\ ord_ba[1] = Reverse(ord_ab[1])

\* Every numeric segment of the string is written without leading zero
\* and is at most 2^32 - 1.
PlainNumbers(str) ==
    \A i \in 1..Len(SplitDots(str)) :
        NumericSegment(SplitDots(str)[i]) =>
            /\ Len(SplitDots(str)[i]) > 1 => Head(SplitDots(str)[i]) # "0"
            /\ MagnitudeCmp(SplitDots(str)[i], U32_MAX) # "Greater"

\* C18 amended: for version strings a and b that differ only in numeric
\* segments, all written without leading zero and at most 2^32 - 1 (a
\* missing segment counting as 0), compare_version_string(a, b) is the
\* order of the magnitudes of the first segment in which they differ in
\* magnitude; when they differ in none (trailing 0 segments) the string
\* with fewer segments is the lesser; compare_version_string(b, a) is the
\* reverse of compare_version_string(a, b).
C18_OrderedByMagnitudeOfPlainNumbers ==
    (Compared /\ DifferOnlyInNumbers(ver_a, ver_b)
        /\ PlainNumbers(ver_a) /\ PlainNumbers(ver_b)) =>
        /\ MagnitudeDiffers(ver_a, ver_b) # {} => ord_ab[1] = MagnitudeOrder(ver_a, ver_b)
        /\ MagnitudeDiffers(ver_a, ver_b) = {} =>
              ord_ab[1] = IF Len(SplitDots(ver_a)) < Len(SplitDots(ver_b))
                          THEN "Less" ELSE "Greater"
        /\ ord_ba[1] = Reverse(ord_ab[1])

\* 1.9 was found less than 1.10 and 1.10 greater than 1.9.
C18_Witness ==
    /\ Compared
    /\ ver_a = <<"1", ".", "9">>
    /\ ver_b = <<"1", ".", "1", "0">>
    /\ ord_ab = Some("Less")
    /\ ord_ba = Some("Greater")

---------------------------------------------------------------------------
(* Claims about tags and termination *)

\* The step commits and tags a version.
CommitsVersion ==
    /\ Len(log') = Len(log) + 1
    /\ IsCommitted(Last(log'))

\* The tag of every version committed in this run is at the commit of the
\* last version processed that carries the name.
TagAtLatestOfName ==
    \A i \in 1..Len(CommittedLog) :
        (\A j \in (i + 1)..Len(CommittedLog) :
            CommittedLog[j].version # CommittedLog[i].version)
            => /\ CommittedLog[i].version \in DOMAIN tags
               /\ tags[CommittedLog[i].version] = CommittedLog[i].commit[1]

\* A step that commits the version v leaves the tag v at the new commit,
\* whether or not a tag v existed, and leaves every other tag alone; no
\* other step changes a tag.
TagStep ==
    /\ CommitsVersion =>
          /\ Last(log').version \in DOMAIN tags'
          /\ tags'[Last(log').version] = Last(log').commit[1]
          /\ DOMAIN tags' = DOMAIN tags \cup {Last(log').version}
          /\ \A w \in DOMAIN tags \ {Last(log').version} : tags'[w] = tags[w]
          /\ error' # "tagging"
    /\ ~CommitsVersion => tags' = tags

\* C19: tag creation overwrites.  When a version string v is processed and
\* a tag named v already exists, from an earlier version of the run or from
\* an earlier run, creating the tag does not fail, and afterwards the tag v
\* points at the commit of the most recently processed version named v.
C19_TagCreationOverwrites == []TagAtLatestOfName /\ [][TagStep]_vars

\* Two versions named 1.0 were committed into the repository of an earlier
\* run that had tagged 1.0: the tag is at the commit of the second.
C19_Witness ==
    /\ job = "component"
    /\ Len(CommittedLog) = 2
    /\ CommittedLog[1].version = "1.0"
    /\ CommittedLog[2].version = "1.0"
    /\ PreviousCommit(job) \in commits
    /\ Cardinality(commits) = 3
    /\ DOMAIN tags = {"1.0"}
    /\ tags["1.0"] = CommittedLog[2].commit[1]
    /\ tags["1.0"] # PreviousCommit(job)

\* create_component_repository or create_release_repository has returned.
Returned == pc \in {"done", "err"}

\* The step takes the failure of the request for a component's versions
\* page or archive (component run) or for a release's page (release run).
PageOrArchiveFails ==
    /\ Len(log') = Len(log) + 1
    /\ Last(log').outcome \in {"fetch_failed", "list_failed"}

\* The step takes the failure of the request of import i.
ImportFails(i) ==
    /\ job = "release"
    /\ pc = "joining"
    /\ imports[i].state = "pending"
    /\ i \in DOMAIN imports'
    /\ imports'[i].state = "none"

\* A request that failed is not sent again: the failure of a page or of a
\* component run's archive ends the run, the failure of an import leaves
\* its future completed, and neither sends a request.  An import that has
\* completed stays completed while join_all waits for the others, and an
\* archive request is sent only when the loop takes its next record or has
\* listed the components of a version.
NoRetryStep ==
    /\ PageOrArchiveFails => pc' = "err" /\ fetches' = fetches
    /\ \A i \in DOMAIN imports : ImportFails(i) => fetches' = fetches
    /\ (pc = "joining" /\ pc' = "joining") =>
          /\ DOMAIN imports' = DOMAIN imports
          /\ \A i \in DOMAIN imports :
                imports[i].state # "pending" => imports'[i] = imports[i]
    /\ fetches' # fetches =>
          \/ job = "component" /\ record' # record /\ record' # None
          \/ job = "release" /\ pc = "components"

\* C20: every import run terminates.  For a finite version list in which
\* each network request eventually returns success, failure or a timeout
\* error, create_component_repository and create_release_repository
\* eventually return, with success or an error; no request is retried and
\* no step waits forever on a stuck transport.
C20_RunTerminates == <>Returned /\ [][NoRetryStep]_vars

\* A release run of two versions has returned although the request of one
\* of its last imports failed.
C20_Witness ==
    /\ job = "release"
    /\ pc = "done"
    /\ Len(log) = 2
    /\ Len(CommittedLog) = 2
    /\ \E i \in DOMAIN imports : imports[i].state = "none"

---------------------------------------------------------------------------
(* Claims about the algorithm of compare_version_string *)

\* The segment without the '+' it may start with.
Unsigned(part) == IF part # <<>> /\ Head(part) = "+" THEN Tail(part) ELSE part

\* The segment is a non-negative integer, of any size.
IsInteger(part) == NumericSegment(Unsigned(part))

\* The segment is a non-negative integer of at most 2^32 - 1.
IsU32(part) ==
    /\ IsInteger(part)
    /\ MagnitudeCmp(Unsigned(part), U32_MAX) # "Greater"

\* The lexicographic order of the strings x and y: that of their first
\* different byte, a proper prefix being the lesser.
LexOrder(x, y) ==
    LET n == IF Len(x) < Len(y) THEN Len(x) ELSE Len(y)
        diff == {k \in 1..n : x[k] # y[k]}
    IN
    IF diff # {}
    THEN LET k == CHOOSE m \in diff : \A j \in diff : m <= j IN
         IF ByteOf(x[k]) < ByteOf(y[k]) THEN "Less" ELSE "Greater"
    ELSE IF Len(x) < Len(y) THEN "Less"
    ELSE IF Len(x) > Len(y) THEN "Greater"
    ELSE "Equal"

\* The positions that decide between x and y when a missing segment of
\* either string counts as 0 and an integer is of any size.
DecidingPadded(x, y) ==
    {i \in 1..MaxOf(Len(SplitDots(x)), Len(SplitDots(y))) :
        /\ IsInteger(SegmentAt(SplitDots(x), i))
        /\ IsInteger(SegmentAt(SplitDots(y), i))
        /\ MagnitudeCmp(Unsigned(SegmentAt(SplitDots(x), i)),
                        Unsigned(SegmentAt(SplitDots(y), i))) # "Equal"}

\* The positions of x that decide between x and y when only a missing
\* segment of y counts as 0 and an integer is at most 2^32 - 1.
DecidingOverFirst(x, y) ==
    {i \in 1..Len(SplitDots(x)) :
        /\ IsU32(SplitDots(x)[i])
        /\ IsU32(SegmentAt(SplitDots(y), i))
        /\ MagnitudeCmp(Unsigned(SplitDots(x)[i]),
                        Unsigned(SegmentAt(SplitDots(y), i))) # "Equal"}

\* The result the first position of `deciding` gives, or the lexicographic
\* order of the full strings when no position decides.
FirstDecides(x, y, deciding) ==
    IF deciding = {} THEN LexOrder(x, y)
    ELSE LET i == CHOOSE m \in deciding : \A j \in deciding : m <= j IN
         MagnitudeCmp(Unsigned(SegmentAt(SplitDots(x), i)),
                      Unsigned(SegmentAt(SplitDots(y), i)))

\* C21 as stated: compare_version_string follows the stated algorithm for
\* every pair of strings: segments are compared position by position with
\* the missing trailing segments of the shorter string, whichever argument
\* it is, treated as 0; the first position where both segments are integers
\* and differ decides; only when no position decides is the result the
\* lexicographic order of the full strings.
C21_FollowsStatedAlgorithm ==
    Compared =>
        /\ ord_ab[1] = FirstDecides(ver_a, ver_b, DecidingPadded(ver_a, ver_b))
        /\ ord_ba[1] = FirstDecides(ver_b, ver_a, DecidingPadded(ver_b, ver_a))

\* C21 amended: the positions compared are those of the first argument
\* only, with a missing segment of the second argument treated as 0 (a
\* segment the second argument has beyond the first's is not compared); the
\* first position where both segments parse as integers of at most
\* 2^32 - 1 and differ decides; only when no position decides is the result
\* the lexicographic order of the full strings.
C21_FollowsAlgorithmOverFirstArgument ==
    Compared =>
        /\ ord_ab[1] = FirstDecides(ver_a, ver_b, DecidingOverFirst(ver_a, ver_b))
        /\ ord_ba[1] = FirstDecides(ver_b, ver_a, DecidingOverFirst(ver_b, ver_a))

\* 1.b was compared with 1.a.5: no position of 1.b decides and 1.b is the
\* greater string, while the third position of 1.a.5 decides against 0.
C21_Witness ==
    /\ Compared
    /\ ver_a = <<"1", ".", "b">>
    /\ ver_b = <<"1", ".", "a", ".", "5">>
    /\ ord_ab = Some("Greater")
    /\ ord_ba = Some("Greater")

---------------------------------------------------------------------------
(* Claims about symbolic links *)

\* The entry carries a link name in its header.
IsLink(e) == ~e.is_dir /\ e.link_name # <<>>

\* C22: a symbolic-link entry is stored as a link-mode (0o120000) tree
\* entry whose blob content is the bytes of the link target, whatever its
\* permission bits are: the mapping of permission bits to a mode and its
\* invalid-mode error are never applied to an entry that carries a link
\* name.
C22_LinkStoredWhateverItsBits ==
    /\ (JustRead /\ IsLink(tar_data[pos - 1]) /\ IsPlaced(tar_data[pos - 1])) =>
          /\ StoredFor(tar_data[pos - 1]) =
                [oid |-> Blob(tar_data[pos - 1].link_name), mode |-> 40960]
          /\ Blob(tar_data[pos - 1].link_name) \in odb
    /\ (tpc = "done" /\ result # None /\ result[1].err = "InvalidArchiveMode") =>
          ~IsLink(tar_data[pos])
    /\ \A i \in 1..Len(tar_data) :
          (IsLink(tar_data[i]) /\ tpc = "done" /\ result # None /\ ~result[1].ok)
              => pos # i

\* A link whose permission bits are 0o200, which no regular file may have,
\* was stored as a link.
C22_Witness ==
    /\ JustRead
    /\ IsLink(tar_data[pos - 1])
    /\ IsPlaced(tar_data[pos - 1])
    /\ tar_data[pos - 1].mode = 128
    /\ StoredFor(tar_data[pos - 1]).mode = 40960
    /\ StoredFor(tar_data[pos - 1]).oid = Blob(<<"a">>)

---------------------------------------------------------------------------
(* Claims about what the dedup cache holds *)

\* The trees a successful conversion of the archive of url returns.
ConvertedTrees(url) ==
    {c.result.oid[1] : c \in {d \in tar_data_to_tree(ArchiveOf(url), {}) : d.result.ok}}

\* Every url of the cache was requested, and its entry is the tree of a
\* successful conversion of its archive.
CacheHoldsConvertedTrees ==
    \A url \in DOMAIN seen_trees :
        /\ url \in DOMAIN fetches
        /\ fetches[url] >= 1
        /\ seen_trees[url] \in ConvertedTrees(url)

\* The number of times url is listed in comps.
TimesListed(comps, url) == Cardinality({k \in DOMAIN comps : comps[k] = url})

\* The requests sent for url so far.
Fetched(f, url) == IF url \in DOMAIN f THEN f[url] ELSE 0

\* An import whose request failed, or whose conversion failed, enters
\* nothing in the cache; a version that lists a url the cache does not hold
\* sends a request for it, once for each time it is listed.
C23_Step ==
    /\ \A i \in DOMAIN imports' :
          (/\ imports'[i].state \in {"none", "err"}
           /\ \A j \in DOMAIN imports' :
                 imports'[j].url = imports'[i].url => imports'[j].state # "some")
             => imports'[i].url \notin DOMAIN seen_trees'
    /\ ComponentsListed =>
          \A k \in DOMAIN components' :
              components'[k] \notin DOMAIN seen_trees =>
                  /\ \E i \in DOMAIN imports' :
                        imports'[i] = PendingImport(components'[k])
                  /\ Fetched(fetches', components'[k]) =
                        Fetched(fetches, components'[k])
                           + TimesListed(components', components'[k])

\* C23: the dedup cache holds an entry for a url only if a fetch and a
\* conversion of that url both succeeded: a component whose fetch failed in
\* version k is not cached, so if the same url is listed again in a later
\* version of the run it is fetched again.
C23_CacheOnlyHoldsSuccesses == []CacheHoldsConvertedTrees /\ [][C23_Step]_vars

\* The archive a/a-1, the only one the first version listed, is not in the
\* cache after that version was committed: its request failed.  The second
\* version lists it again and a second request for it is under way.
C23_Witness ==
    /\ job = "release"
    /\ pc = "joining"
    /\ Len(CommittedLog) = 1
    /\ prev_components = <<"a/a-1">>
    /\ components = <<"a/a-1">>
    /\ "a/a-1" \notin DOMAIN seen_trees
    /\ fetches["a/a-1"] = 2
    /\ imports = <<PendingImport("a/a-1")>>

---------------------------------------------------------------------------
(* Claims about when the branch is moved *)

\* The branch, HEAD and the working files change only in the step that
\* ends the run with success, after the last version: the branch is then
\* put at the last commit.
BranchStep ==
    (branches' # branches \/ head' # head \/ workdir' # workdir) =>
        /\ pc # "done"
        /\ pc' = "done"
        /\ records' = <<>>
        /\ parent_commit' # None
        /\ branches' = Put(branches, branch_name, parent_commit'[1])

\* While the run goes on and when it has aborted, the branch is as the run
\* found it: absent in a new repository, at the commit of the earlier run
\* otherwise, and HEAD is as the repository was created or left.
BranchAsFound ==
    pc # "done" =>
        /\ head = AttachedHead(branch_name)
        /\ \/ branches = <<>>
           \/ branches = Put(<<>>, branch_name, PreviousCommit(job))

\* A run that aborted after k >= 1 versions were committed left the k
\* commits and their tags.
AbortKeepsCommitsAndTags ==
    (pc = "err" /\ Len(CommittedLog) >= 1) =>
        /\ \A i \in 1..Len(CommittedLog) :
              /\ CommittedLog[i].commit[1] \in commits
              /\ CommittedLog[i].version \in DOMAIN tags
              /\ tags[CommittedLog[i].version] \in
                    {CommittedLog[j].commit[1] : j \in i..Len(CommittedLog)}
        /\ parent_commit = Last(CommittedLog).commit

\* C24: the primary branch is moved only in the terminal step of a run:
\* between versions it is never updated, and when a run aborts with an
\* error after k >= 1 versions were committed, the k commits and tags exist
\* but the branch main has not been created or moved to any of them.
C24_BranchMovedOnlyAtEnd ==
    [](BranchAsFound /\ AbortKeepsCommitsAndTags) /\ [][BranchStep]_vars

\* A component run into the repository of an earlier run committed two
\* versions and aborted at the third: the branch is still at the commit of
\* the earlier run, which is none of the two.
C24_Witness ==
    /\ job = "component"
    /\ pc = "err"
    /\ Len(log) = 3
    /\ Len(CommittedLog) = 2
    /\ Cardinality(commits) = 3
    /\ Cardinality(DOMAIN tags) = 2
    /\ branches = Put(<<>>, branch_name, PreviousCommit(job))
    /\ \A i \in 1..2 : CommittedLog[i].commit[1] # PreviousCommit(job)

---------------------------------------------------------------------------
(* Claims about create_components_repositories *)

\* The repository path of the component c: the destination joined with c.
OwnPath(c) == <<"dest", c>>

\* Every repository is at the path of one component whose run has created
\* it, and holds commits of that component only; a run that got its
\* versions has its repository.
EachRepoIsOneComponents ==
    /\ \A p \in DOMAIN repos :
          \E c \in DOMAIN comp_runs :
              /\ p = OwnPath(c)
              /\ comp_runs[c].pc # "versions"
              /\ \A i \in DOMAIN repos[p].commits : repos[p].commits[i][1] = c
    /\ \A c \in DOMAIN comp_runs :
          (comp_runs[c].pc = "versions" \/ comp_runs[c].error = "fetching component versions")
              <=> OwnPath(c) \notin DOMAIN repos

\* A run that has not returned can take its next step, whatever the other
\* runs have returned.
FailureDoesNotStopOthers ==
    \A d \in DOMAIN comp_runs :
        Running(comp_runs[d]) => batch_pc = "joining" /\ ENABLED RunStepOf(d)

\* The batch has returned only when every run has returned.
AllAwaited ==
    /\ batch_pc = "returned" <=> batch_result # None
    /\ batch_pc = "returned" => \A c \in DOMAIN comp_runs : ~Running(comp_runs[c])

\* The batch returns Ok when the components were listed, whatever the runs
\* returned, and the errors it prints are those of the runs that failed.
ReturnsOkUnlessListingFailed ==
    batch_pc = "returned" =>
        /\ batch_result \in {Some("Ok"), Some("Err")}
        /\ batch_result = Some("Err") => comp_runs = <<>> /\ repos = <<>> /\ errors = <<>>
        /\ comp_runs # <<>> => batch_result = Some("Ok")
        /\ {errors[i] : i \in DOMAIN errors} =
              {c \in DOMAIN comp_runs : comp_runs[c].pc = "err"}

\* A step of the run of c leaves every other run and every other
\* repository as they were, and the batch returns an error only from the
\* listing of the components.
IndependentStep ==
    /\ \A c \in DOMAIN comp_runs : \A d \in DOMAIN comp_runs :
          (c # d /\ comp_runs'[c] # comp_runs[c]) =>
              /\ comp_runs'[d] = comp_runs[d]
              /\ OwnPath(d) \in DOMAIN repos <=> OwnPath(d) \in DOMAIN repos'
              /\ OwnPath(d) \in DOMAIN repos => repos'[OwnPath(d)] = repos[OwnPath(d)]
    /\ (batch_result' = Some("Err") /\ batch_result # Some("Err")) => batch_pc = "listing"

\* C25: in create_components_repositories the runs of the components are
\* independent: each writes only to its own repository path, an error in
\* one run does not stop or alter any other run, all runs are awaited
\* before the batch returns, and the batch returns success even when some
\* runs failed; only a failure to list the components fails the batch.
C25_RunsAreIndependent ==
    /\ [](EachRepoIsOneComponents /\ FailureDoesNotStopOthers /\ AllAwaited
            /\ ReturnsOkUnlessListingFailed)
    /\ [][IndependentStep]_vars

\* The batch of c and d has returned Ok: the run of c failed at its second
\* version and left one commit, the run of d committed two versions and
\* put its branch at the second.
C25_Witness ==
    /\ batch_pc = "returned"
    /\ batch_result = Some("Ok")
    /\ DOMAIN comp_runs = {"c", "d"}
    /\ comp_runs["c"].pc = "err"
    /\ OwnPath("c") \in DOMAIN repos
    /\ Len(repos[OwnPath("c")].commits) = 1
    /\ repos[OwnPath("c")].branch = None
    /\ comp_runs["d"].pc = "done"
    /\ Len(repos[OwnPath("d")].commits) = 2
    /\ repos[OwnPath("d")].branch = Some(<<"d", "1.1">>)
    /\ errors = <<"c">>

=============================================================================
